---------------------------- MODULE Spec2Model ----------------------------
(***************************************************************************)
(* A model of two parts of the repository:                                 *)
(*                                                                         *)
(*  - the scheduler of the new semantic analyzer                           *)
(*    (src/mypy/newsemanal/semanal_main.py): semantic_analysis_for_scc,    *)
(*    process_top_levels, process_functions, process_top_level_function    *)
(*    and semantic_analyze_target;                                         *)
(*                                                                         *)
(*  - the generator class that mypyc builds for a generator function       *)
(*    (src/mypyc/irbuild/generator.py): the helper with its switch on the  *)
(*    resumption label, and the methods __next__, send, throw and close.   *)
(*                                                                         *)
(* The semantic analyzer proper (NewSemanticAnalyzer.refresh_partial) and  *)
(* the lowering of a generator's body (yield, return) are not among the    *)
(* source files; they are modelled from the specification and marked so.   *)
(***************************************************************************)
EXTENDS Integers, Sequences, FiniteSets, TLC

(***************************************************************************)
(* Program constants.                                                      *)
(***************************************************************************)

\* semanal_main.py:49
MAX_ITERATIONS == 10

\* semanal_main.py:52
CORE_WARMUP == 2

\* semanal_main.py:53
core_modules == <<"typing", "builtins", "abc", "collections">>

(***************************************************************************)
(* Bounds of the model.                                                    *)
(***************************************************************************)

\* Leaf targets (functions, methods) per module, at most.
MaxFuncs == 1

\* semantic_analysis_for_scc is run at most this many times on one SCC.
MaxRuns == 2

\* Suspension points (yields) in the body of a generator function, at most.
MaxYields == 3

\* Calls made on one generator object, at most.
MaxCalls == 4

\* The modules user SCCs are drawn from.
UserModules == {"a", "b", "c"}

Modules == UserModules \cup {core_modules[i] : i \in 1..Len(core_modules)}

(***************************************************************************)
(* Sequences.                                                              *)
(***************************************************************************)

Range(s) == {s[i] : i \in 1..Len(s)}

Reverse(s) == [i \in 1..Len(s) |-> s[Len(s) + 1 - i]]

\* s repeated n times: the list product  s * n  of Python.
RECURSIVE Repeat(_, _)
Repeat(s, n) == IF n <= 0 THEN <<>> ELSE s \o Repeat(s, n - 1)

\* A pop that reads the front of the list.
Oldest(s) == s[1]

Last(s) == s[Len(s)]

Front(s) == SubSeq(s, 1, Len(s) - 1)

\* The sequences without repetition over the set S.
RECURSIVE Perms(_)
Perms(S) ==
    IF S = {} THEN {<<>>}
    ELSE UNION {{<<x>> \o p : p \in Perms(S \ {x})} : x \in S}

(***************************************************************************)
(* State.                                                                  *)
(***************************************************************************)

VARIABLES
    \* --- semantic_analysis_for_scc: its arguments
    scc,                    \* the SCC: a list of module ids
    graph,                  \* graph[id]: the module's tree, as [top, funcs]
    \* --- the build manager and the analyzer
    incomplete_namespaces,  \* state.manager.incomplete_namespaces
    names,                  \* the modules whose symbol table binds the module's name
    errors,                 \* the undefined-name errors reported: <<target, module>>
    \* --- process_top_levels: its locals
    worklist,
    all_deferred,
    iteration,
    final_iteration,
    \* --- process_functions: the position of its two loops
    fn_module,              \* index in scc of the module being processed
    fn_index,               \* index of the target in get_all_leaf_targets(tree)
    \* --- process_top_level_function: its locals
    fn_iteration,
    more_iterations,
    deferred,               \* TRUE: the list  deferred  is not empty
    incomplete,
    \* --- control
    pc,                     \* the position in semantic_analysis_for_scc
    run,                    \* the number of the run of semantic_analysis_for_scc
    \* --- history, read by the properties only
    analysed,               \* the targets analysed in this run
    last,                   \* the last call of semantic_analyze_target
    run_deferred,           \* run -> a target was deferred in that run
    run_errors,             \* run -> the errors reported by the end of that run
    forced,                 \* process_top_levels gave up in this run (line 116)
    prev_deferred,          \* all_deferred as the previous round left it
    \* --- the caller of process_top_levels and process_top_level_function
    caller,                 \* semantic_analysis_for_scc or process_selected_targets
    nodes,                  \* process_selected_targets: 0 for a MypyFile node,
                            \* k for the k-th function of the module
    node_index,             \* process_selected_targets: the position of its loop
    \* --- a generator object (generator.py)
    gen_blocks,             \* len(continuation_blocks) of its class
    next_label,             \* the attribute NEXT_LABEL_ATTR_NAME of its environment
    gen_calls,              \* the number of calls made on the object
    gen_call,               \* the last call made on the object and how it ended
    gen_straight,           \* its body is yield 1; ...; yield gen_blocks - 1
    gen_trace,              \* of a straight body: the calls made and their ends
    \* --- one operation of the C emitter (codegen/emit.py)
    emit_call,              \* the operation and its arguments
    emit_out,               \* what the C code it emitted did
    \* --- one validation run (api.py)
    api_call,               \* the errors of the build and whether it raised
    api_out,                \* what validate returned
    \* --- the daemon (dmypy.py)
    srv_pc,                 \* where the server process is
    command,                \* the local variable command of server()
    last_args,              \* the global last_args: a check has been run
    srv_log,                \* the requests accepted and what was sent back
    \* --- one inference of a condition's truth value (reachability.py)
    cond_call,              \* the expression and the options
    cond_out                \* what infer_condition_value returned

semVars == <<scc, graph, incomplete_namespaces, names, errors, worklist,
             all_deferred, iteration, final_iteration, fn_module, fn_index,
             fn_iteration, more_iterations, deferred, incomplete, pc, run,
             analysed, last, run_deferred, run_errors, forced, prev_deferred,
             caller, nodes, node_index>>

selVars == <<caller, nodes, node_index>>

genVars == <<gen_blocks, next_label, gen_calls, gen_call, gen_straight, gen_trace>>

emitVars == <<emit_call, emit_out>>

apiVars == <<api_call, api_out>>

srvVars == <<srv_pc, command, last_args, srv_log>>

condVars == <<cond_call, cond_out>>

vars == <<semVars, genVars, emitVars, apiVars, srvVars, condVars>>

(***************************************************************************)
(* Targets and trees.  A module's top level is the target <<id, 0>>, its   *)
(* k-th leaf target (function or method) is <<id, k>>.                     *)
(*                                                                         *)
(* A body is a record.  An opaque body stands for any code: its analysis   *)
(* may end in any way the analyzer's contract allows.  Another body says   *)
(* how the module's name is defined (def: "none", "plain", or "from" the   *)
(* name of module src, as in  from src import x) and which modules' names  *)
(* it refers to (refs).                                                    *)
(***************************************************************************)

TopLevel(id) == <<id, 0>>

OpaqueBody == [opaque |-> TRUE, def |-> "none", src |-> "-", refs |-> {}]

NamesBody(d, s, r) == [opaque |-> FALSE, def |-> d, src |-> s, refs |-> r]

NoTarget == [target |-> <<"-", 0>>, final |-> FALSE, round |-> 0,
             deferred |-> FALSE, incomplete |-> FALSE]

\* get_all_leaf_targets(tree): the indices of the module's leaf targets.
get_all_leaf_targets(id) == 1..Len(graph[id].funcs)

(***************************************************************************)
(* The analyzer.  NewSemanticAnalyzer.refresh_partial is not among the     *)
(* source files.  It is modelled from the module's docstring               *)
(* (semanal_main.py:15-24) and the specification (4.1, 4.2): a reference   *)
(* that cannot be bound defers the target when the namespace it looks in   *)
(* is incomplete and the analysis is not in its final iteration, and is    *)
(* reported as an error otherwise; a namespace whose own definition could  *)
(* not be made yet is incomplete, and its target is deferred.              *)
(*                                                                         *)
(* refresh_partial gives the set of states the analyzer may end in:        *)
(* [deferred, incomplete, names, errors].  inc, nm and errs are            *)
(* incomplete_namespaces, the symbol tables and the errors at the call.    *)
(***************************************************************************)

\* The ends the analyzer's contract allows for a body the model does not look into.
OpaqueEnds(final, inc, nm, errs) ==
    {[deferred |-> d, incomplete |-> i, names |-> nm, errors |-> errs] :
        <<d, i>> \in {di \in BOOLEAN \X BOOLEAN :
                        /\ di[2] => di[1]
                        /\ di[1] => (~final /\ inc # {})}}

\* The end of the analysis of a body of definitions and references.
NamesEnd(t, b, final, inc, nm, errs) ==
    LET id == t[1]
        def_missing == b.def = "from" /\ b.src \notin nm
        def_deferred == def_missing /\ b.src \in inc /\ ~final
        def_made == b.def = "plain" \/ (b.def = "from" /\ b.src \in nm)
        nm2 == IF def_made THEN nm \cup {id} ELSE nm
        missing == {r \in b.refs : r \notin nm2}
        refs_deferred == {r \in missing : r \in inc /\ ~final}
        undefined == (missing \ refs_deferred)
                        \cup (IF def_missing /\ ~def_deferred THEN {b.src} ELSE {})
    IN  [deferred |-> def_deferred \/ refs_deferred # {},
         incomplete |-> def_deferred,
         names |-> nm2,
         errors |-> errs \cup {<<t, r>> : r \in undefined}]

refresh_partial(t, b, final, inc, nm, errs) ==
    IF b.opaque THEN OpaqueEnds(final, inc, nm, errs)
    ELSE {NamesEnd(t, b, final, inc, nm, errs)}

(***************************************************************************)
(* semantic_analyze_target (semanal_main.py:201-229): the analyzer is run  *)
(* on the node; the result is ([target], incomplete) when the analyzer     *)
(* deferred and ([], incomplete) when it did not.                          *)
(***************************************************************************)

TargetResult(target, a) ==
    [deferred |-> IF a.deferred THEN <<target>> ELSE <<>>,
     incomplete |-> a.incomplete,
     names |-> a.names,
     errors |-> a.errors]

semantic_analyze_target(target, t, b, final, inc, nm, errs) ==
    {TargetResult(target, a) : a \in refresh_partial(t, b, final, inc, nm, errs)}

\* set.discard(x)
Discard(S, x) == S \ {x}

\* A clear() that was left out.
ClearNothing(S) == S

\* set.clear()
Clear(S) == {}

(***************************************************************************)
(* process_top_levels (semanal_main.py:95-134).                            *)
(***************************************************************************)

\* A start that marks no namespace incomplete.
MarkIncompleteNone(inc, s) == inc

\* Line 105: initially all namespaces in the SCC are incomplete.
MarkIncomplete(inc, s) == inc \cup Range(s)

\* A worklist that leaves out the first module of the SCC.
InitialWorklistTail(s) == Tail(s)

\* Lines 107-111: the worklist is the SCC; the core modules, when the SCC
\* holds them all, are added CORE_WARMUP more times, to be processed first.
InitialWorklist(s) ==
    IF \A i \in 1..Len(core_modules) : core_modules[i] \in Range(s)
    THEN s \o Repeat(Reverse(core_modules), CORE_WARMUP)
    ELSE s

\* A scheduler that gives up one round late.
GiveUpLate(it) == it = MAX_ITERATIONS + 1

\* Line 116: the round in which the scheduler gives up.
GiveUp(it) == it = MAX_ITERATIONS

\* A worklist that keeps the order of the deferred targets.
NextWorklistKept(d) == d

\* Line 134: the next round's worklist.
NextWorklist(d) == Reverse(d)

\* Namespaces from which no analysed target is ever discarded.
AfterTopLevelKept(inc, next_id, r) == inc

\* Namespaces in which a target found incomplete is marked incomplete again.
AfterTopLevelMarking(inc, next_id, r) ==
    IF ~r.incomplete THEN Discard(inc, next_id) ELSE inc \cup {next_id}

\* Namespaces from which a target is discarded when it was not deferred.
AfterTopLevelNotDeferred(inc, next_id, r) ==
    IF r.deferred = <<>> THEN Discard(inc, next_id) ELSE inc

\* Line 131: the namespaces after a target's analysis.
AfterTopLevel(inc, next_id, r) ==
    IF ~r.incomplete THEN Discard(inc, next_id) ELSE inc

fnLocals == <<fn_module, fn_index, fn_iteration, more_iterations, deferred, incomplete>>

\* A start whose prepare_file empties the symbol tables of the SCC.
TopLevelsStartFresh ==
    /\ pc = "call"
    /\ incomplete_namespaces' = MarkIncomplete(incomplete_namespaces, scc)
    /\ worklist' = InitialWorklist(scc)
    /\ iteration' = 0
    /\ final_iteration' = FALSE
    /\ all_deferred' = <<>>
    /\ pc' = "outer"
    /\ analysed' = {}
    /\ last' = NoTarget
    /\ forced' = FALSE
    /\ prev_deferred' = <<>>
    /\ names' = names \ Range(scc)
    /\ UNCHANGED <<genVars, emitVars, apiVars, srvVars, condVars, selVars, scc, graph, errors, fnLocals, run, run_deferred, run_errors>>

\* Lines 99-113.  prepare_file adds to the symbol tables nothing the model holds.
TopLevelsStart ==
    /\ pc = "call"
    /\ incomplete_namespaces' = MarkIncomplete(incomplete_namespaces, scc)
    /\ worklist' = InitialWorklist(scc)
    /\ iteration' = 0
    /\ final_iteration' = FALSE
    /\ all_deferred' = <<>>
    /\ pc' = "outer"
    /\ analysed' = {}
    /\ last' = NoTarget
    /\ forced' = FALSE
    /\ prev_deferred' = <<>>
    /\ UNCHANGED <<genVars, emitVars, apiVars, srvVars, condVars, selVars, scc, graph, names, errors, fnLocals, run, run_deferred, run_errors>>

\* Lines 114-122: the head of a round.
RoundStart ==
    /\ pc = "outer"
    /\ worklist # <<>>
    /\ iteration' = iteration + 1
    /\ prev_deferred' = all_deferred
    /\ IF GiveUp(iteration')
       THEN /\ incomplete_namespaces' = Clear(incomplete_namespaces)
            /\ final_iteration' = TRUE
            /\ all_deferred' = <<>>
            /\ pc' = "inner"
            /\ forced' = TRUE
       ELSE IF iteration' > MAX_ITERATIONS
       THEN \* assert False, 'Max iteration count reached in semantic analysis'
            /\ pc' = "AssertionError"
            /\ UNCHANGED <<incomplete_namespaces, final_iteration, all_deferred, forced>>
       ELSE /\ all_deferred' = <<>>
            /\ pc' = "inner"
            /\ UNCHANGED <<incomplete_namespaces, final_iteration, forced>>
    /\ UNCHANGED <<genVars, emitVars, apiVars, srvVars, condVars, selVars, scc, graph, names, errors, worklist, fnLocals, run,
                   analysed, last, run_deferred, run_errors>>

\* Lines 123-131: one target of the round.
AnalyzeTopLevel ==
    /\ pc = "inner"
    /\ worklist # <<>>
    /\ LET next_id == Last(worklist) IN
       \E r \in semantic_analyze_target(next_id, TopLevel(next_id), graph[next_id].top,
                                        final_iteration, incomplete_namespaces,
                                        names, errors) :
          /\ worklist' = Front(worklist)
          /\ all_deferred' = all_deferred \o r.deferred
          /\ incomplete_namespaces' = AfterTopLevel(incomplete_namespaces, next_id, r)
          /\ names' = r.names
          /\ errors' = r.errors
          /\ analysed' = analysed \cup {TopLevel(next_id)}
          /\ last' = [target |-> TopLevel(next_id), final |-> final_iteration,
                      round |-> iteration, deferred |-> r.deferred # <<>>,
                      incomplete |-> r.incomplete]
          /\ run_deferred' = [run_deferred EXCEPT ![run] = @ \/ r.deferred # <<>>]
    /\ UNCHANGED <<genVars, emitVars, apiVars, srvVars, condVars, selVars, forced, prev_deferred, scc, graph, iteration,
                   final_iteration, fnLocals, pc, run, run_errors>>

\* Lines 132-134: the end of a round.
RoundEnd ==
    /\ pc = "inner"
    /\ worklist = <<>>
    /\ worklist' = NextWorklist(all_deferred)
    /\ pc' = "outer"
    /\ UNCHANGED <<genVars, emitVars, apiVars, srvVars, condVars, selVars, forced, prev_deferred, scc, graph,
                   incomplete_namespaces, names, errors, all_deferred, iteration, final_iteration, fnLocals, run, analysed, last,
                   run_deferred, run_errors>>

\* Line 114, the worklist is empty: process_top_levels returns and
\* semantic_analysis_for_scc calls process_functions (line 66).
TopLevelsReturn ==
    /\ pc = "outer"
    /\ worklist = <<>>
    /\ pc' = IF caller = "semantic_analysis_for_scc" THEN "functions" ELSE "nodes"
    /\ fn_module' = 1
    /\ fn_index' = 1
    \* the locals of process_top_levels are gone
    /\ all_deferred' = <<>>
    /\ iteration' = 0
    /\ final_iteration' = FALSE
    /\ last' = NoTarget
    /\ prev_deferred' = <<>>
    /\ UNCHANGED <<genVars, emitVars, apiVars, srvVars, condVars, selVars, forced, scc, graph, incomplete_namespaces, names, errors, worklist,
                   fn_iteration, more_iterations, deferred, incomplete, run,
                   analysed, run_deferred, run_errors>>

(***************************************************************************)
(* process_functions (semanal_main.py:137-152) and                         *)
(* process_top_level_function (semanal_main.py:155-186).                   *)
(***************************************************************************)

topLocals == <<worklist, all_deferred, iteration, final_iteration, prev_deferred>>

\* The module and the target the two loops of process_functions stand at.
FnModule == scc[fn_module]

FnTarget == <<FnModule, fn_index>>

\* A last pass that no number of iterations brings about.
LastPassWithoutLimit(d, i, it) == ~(d \/ i)

\* Line 176: this pass is the last one.
LastPass(d, i, it) == ~(d \/ i) \/ it = MAX_ITERATIONS

\* A return of process_top_level_function without its discard.
AfterFunctionKept(inc, module) == inc

\* Line 183: the namespaces when process_top_level_function returns.
AfterFunction(inc, module) == Discard(inc, module)

\* Line 139: the next module of the SCC, its targets being done.
FunctionsNextModule ==
    /\ pc = "functions"
    /\ fn_module <= Len(scc)
    /\ fn_index \notin get_all_leaf_targets(FnModule)
    /\ fn_module' = fn_module + 1
    /\ fn_index' = 1
    /\ UNCHANGED <<genVars, emitVars, apiVars, srvVars, condVars, selVars, forced, scc, graph, incomplete_namespaces, names, errors, topLocals,
                   fn_iteration, more_iterations, deferred, incomplete, pc, run,
                   analysed, last, run_deferred, run_errors>>

\* Lines 144-152 and 167-173: process_top_level_function is called and starts.
FunctionStart ==
    /\ pc = "functions"
    /\ fn_module <= Len(scc)
    /\ fn_index \in get_all_leaf_targets(FnModule)
    /\ fn_iteration' = 0
    /\ more_iterations' = TRUE
    /\ incomplete' = TRUE
    /\ deferred' = TRUE
    /\ incomplete_namespaces' = incomplete_namespaces \cup {FnModule}
    /\ pc' = "function"
    /\ UNCHANGED <<genVars, emitVars, apiVars, srvVars, condVars, selVars, forced, scc, graph, names, errors, topLocals, fn_module, fn_index, run,
                   analysed, last, run_deferred, run_errors>>

\* Lines 174-181: one pass over the function.
FunctionPass ==
    /\ pc = "function"
    /\ deferred /\ more_iterations
    /\ LET it == fn_iteration + 1
           last_pass == LastPass(deferred, incomplete, it)
           more == IF last_pass THEN FALSE ELSE more_iterations
           inc == IF last_pass THEN Discard(incomplete_namespaces, FnModule)
                  ELSE incomplete_namespaces
       IN
       \E r \in semantic_analyze_target(FnTarget, FnTarget,
                                        graph[FnModule].funcs[fn_index],
                                        ~more, inc, names, errors) :
          /\ fn_iteration' = it
          /\ more_iterations' = more
          /\ incomplete_namespaces' = inc
          /\ deferred' = (r.deferred # <<>>)
          /\ incomplete' = r.incomplete
          /\ names' = r.names
          /\ errors' = r.errors
          /\ analysed' = analysed \cup {FnTarget}
          /\ last' = [target |-> FnTarget, final |-> ~more, round |-> it,
                      deferred |-> r.deferred # <<>>, incomplete |-> r.incomplete]
          /\ run_deferred' = [run_deferred EXCEPT ![run] = @ \/ r.deferred # <<>>]
    /\ UNCHANGED <<genVars, emitVars, apiVars, srvVars, condVars, selVars, forced, scc, graph, topLocals, fn_module, fn_index, pc, run, run_errors>>

\* Lines 174 and 183-186: the loop ends and process_top_level_function returns.
FunctionReturn ==
    /\ pc = "function"
    /\ ~(deferred /\ more_iterations)
    /\ incomplete_namespaces' = AfterFunction(incomplete_namespaces, FnModule)
    /\ IF caller = "semantic_analysis_for_scc"
       THEN \* back in the loop of process_functions
            /\ fn_index' = fn_index + 1
            /\ pc' = "functions"
            /\ node_index' = node_index
       ELSE \* back in the loop of process_selected_targets
            /\ fn_index' = 1
            /\ pc' = "nodes"
            /\ node_index' = node_index + 1
    \* the locals of process_top_level_function are gone
    /\ fn_iteration' = 0
    /\ more_iterations' = FALSE
    /\ deferred' = FALSE
    /\ incomplete' = FALSE
    /\ last' = NoTarget
    /\ UNCHANGED <<genVars, emitVars, apiVars, srvVars, condVars, caller, nodes, forced, scc, graph, names, errors,
                   topLocals, fn_module, run, analysed, run_deferred, run_errors>>

\* Line 139, no module is left: process_functions returns, and so does
\* semantic_analysis_for_scc (lines 67-72 change nothing the model holds).
FunctionsReturn ==
    /\ pc = "functions"
    /\ fn_module > Len(scc)
    /\ pc' = "done"
    /\ fn_module' = 1
    /\ run_errors' = [run_errors EXCEPT ![run] = errors]
    /\ UNCHANGED <<genVars, emitVars, apiVars, srvVars, condVars, selVars, forced, scc, graph, incomplete_namespaces, names, errors, topLocals,
                   fn_index, fn_iteration, more_iterations, deferred, incomplete,
                   run, analysed, last, run_deferred>>

\* semantic_analysis_for_scc is called again on the same SCC.
Rerun ==
    /\ pc = "done"
    /\ run < MaxRuns
    /\ run' = run + 1
    /\ pc' = "call"
    /\ UNCHANGED <<genVars, emitVars, apiVars, srvVars, condVars, selVars, forced, scc, graph, incomplete_namespaces, names, errors, topLocals,
                   fnLocals, analysed, last, run_deferred, run_errors>>

(***************************************************************************)
(* The specification of the scheduler over opaque bodies: every SCC over   *)
(* the user modules, in every order, with up to MaxFuncs leaf targets in   *)
(* each module.                                                            *)
(***************************************************************************)

NoCall == [method |-> "-", type |-> "-", value |-> "-", traceback |-> "-",
           arg |-> "-", label |-> 0, entered |-> -1, injected |-> FALSE,
           throws |-> 0, inner |-> "-", inner_exc |-> "-", kind |-> "-",
           exc |-> "-", result |-> "-", yielded |-> 0,
           given |-> <<"-", "-">>]

\* No generator object is part of the run.
GeneratorIdle ==
    /\ gen_blocks = 0
    /\ next_label = 0
    /\ gen_calls = 0
    /\ gen_call = NoCall
    /\ gen_straight = FALSE
    /\ gen_trace = <<>>

\* No operation of the emitter is part of the run.
EmitterIdle ==
    /\ emit_call = [op |-> "-"]
    /\ emit_out = [op |-> "-"]

\* No validation run is part of the run.
ApiIdle ==
    /\ api_call = [op |-> "-"]
    /\ api_out = [op |-> "-"]

\* The daemon is not part of the run.
ServerIdle ==
    /\ srv_pc = "-"
    /\ command = "-"
    /\ last_args = FALSE
    /\ srv_log = <<>>

\* No inference of a condition is part of the run.
ConditionIdle ==
    /\ cond_call = [op |-> "-"]
    /\ cond_out = [op |-> "-"]

\* The SCCs: the lists without repetition of one or more of the modules S.
SCCs(S) == UNION {Perms(T) : T \in (SUBSET S) \ {{}}}

OpaqueTree(n) == [top |-> OpaqueBody, funcs |-> [k \in 1..n |-> OpaqueBody]]

\* The state in which a caller finds the build manager and the analyzer.
AnalysisStart ==
    /\ incomplete_namespaces = {}
    /\ names = {}
    /\ errors = {}
    /\ worklist = <<>>
    /\ all_deferred = <<>>
    /\ iteration = 0
    /\ final_iteration = FALSE
    /\ fn_module = 1
    /\ fn_index = 1
    /\ fn_iteration = 0
    /\ more_iterations = FALSE
    /\ deferred = FALSE
    /\ incomplete = FALSE
    /\ run = 1
    /\ analysed = {}
    /\ last = NoTarget
    /\ run_deferred = [r \in 1..MaxRuns |-> FALSE]
    /\ run_errors = [r \in 1..MaxRuns |-> {}]
    /\ forced = FALSE
    /\ prev_deferred = <<>>

\* semantic_analysis_for_scc is called.
SchedulerStart ==
    /\ AnalysisStart
    /\ pc = "call"
    /\ caller = "semantic_analysis_for_scc"
    /\ nodes = <<>>
    /\ node_index = 1

Init ==
    /\ scc \in SCCs(UserModules)
    /\ \E n \in [Range(scc) -> 0..MaxFuncs] :
          graph = [id \in Range(scc) |-> OpaqueTree(n[id])]
    /\ SchedulerStart
    /\ GeneratorIdle
    /\ EmitterIdle
    /\ ApiIdle
    /\ ServerIdle
    /\ ConditionIdle

Next ==
    \/ TopLevelsStart
    \/ RoundStart
    \/ AnalyzeTopLevel
    \/ RoundEnd
    \/ TopLevelsReturn
    \/ FunctionsNextModule
    \/ FunctionStart
    \/ FunctionPass
    \/ FunctionReturn
    \/ FunctionsReturn

Spec == Init /\ [][Next]_vars

(***************************************************************************)
(* The specification of the scheduler over bodies of definitions and       *)
(* references: every SCC over the user modules, in every order, where      *)
(* each module defines its name or not, plainly or from another module of  *)
(* the SCC, and refers to at most one other module's name; and the SCC of  *)
(* the core modules.  The first module of the SCC has up to MaxFuncs leaf  *)
(* targets, each referring to the name of its own module.  The analysis of *)
(* the SCC is run up to MaxRuns times.                                     *)
(***************************************************************************)

\* The top-level bodies of module id in an SCC of the modules S.
NamesTops(id, S) ==
    {NamesBody(d[1], d[2], r) :
        d \in {<<"none", "-">>, <<"plain", "-">>} \cup {<<"from", n>> : n \in S \ {id}},
        r \in {{}} \cup {{n} : n \in S \ {id}}}

FunctionBody(id) == NamesBody("none", "-", {id})

\* The core modules define their names plainly or from the next core module.
CoreTops(id, S) ==
    {NamesBody("plain", "-", {})} \cup
    {NamesBody("from", core_modules[i], {}) :
        i \in {j \in 1..Len(core_modules) : core_modules[(j % Len(core_modules)) + 1] = id}}

CoreSCCs == {core_modules, Reverse(core_modules),
             <<"builtins", "abc", "typing", "collections">>}

NamesInit ==
    /\ scc \in SCCs(UserModules) \cup CoreSCCs
    /\ \E nf \in 0..MaxFuncs :
       \E tops \in [Range(scc) ->
                       UNION {NamesTops(id, Range(scc)) \cup CoreTops(id, Range(scc)) :
                                id \in Range(scc)}] :
          /\ \A id \in Range(scc) :
                tops[id] \in (IF scc \in CoreSCCs THEN CoreTops(id, Range(scc))
                              ELSE NamesTops(id, Range(scc)))
          /\ graph = [id \in Range(scc) |->
                        [top |-> tops[id],
                         funcs |-> [k \in 1..(IF id = scc[1] THEN nf ELSE 0) |->
                                       FunctionBody(id)]]]
    /\ SchedulerStart
    /\ GeneratorIdle
    /\ EmitterIdle
    /\ ApiIdle
    /\ ServerIdle
    /\ ConditionIdle

NamesNext == Next \/ Rerun

SpecNames == NamesInit /\ [][NamesNext]_vars

(***************************************************************************)
(* The scheduler, with the fairness its single thread gives: a step that   *)
(* can be taken is taken.                                                  *)
(***************************************************************************)

FairSpec == Spec /\ WF_vars(Next)

\* process_top_levels is running: it is at the head of a round or inside one.
InTopLevels == pc \in {"outer", "inner"}

\* process_top_levels has returned.
TopLevelsDone == pc \in {"functions", "function", "done"}

\* The leaf targets of the SCC.
LeafTargets == UNION {{<<id, k>> : k \in get_all_leaf_targets(id)} : id \in Range(scc)}

(***************************************************************************)
(* C1.  process_top_levels never runs more than MAX_ITERATIONS rounds: the *)
(* assertion of round MAX_ITERATIONS + 1 is never reached, the worklist is *)
(* empty at the end of round MAX_ITERATIONS, and process_top_levels        *)
(* returns, whatever outcomes the analyzer gives within its contract.      *)
(***************************************************************************)
C1_NoAssertion ==
    /\ pc # "AssertionError"
    /\ iteration <= MAX_ITERATIONS
    /\ (pc = "outer" /\ iteration = MAX_ITERATIONS) => worklist = <<>>

C1_TerminatesWithinMaxIterations == [](C1_NoAssertion) /\ <>(TopLevelsDone)

\* process_top_levels is about to return after round MAX_ITERATIONS, whose
\* worklist held targets deferred in every round before.
C1_Witness ==
    /\ pc = "outer"
    /\ worklist = <<>>
    /\ iteration = MAX_ITERATIONS
    /\ forced

(***************************************************************************)
(* C2.  When process_top_levels has returned, the top level of every       *)
(* module of the SCC has been analysed; when semantic_analysis_for_scc     *)
(* returns, every leaf target of every module has been analysed too.       *)
(***************************************************************************)
C2_EveryTargetAnalysed ==
    /\ TopLevelsDone => \A id \in Range(scc) : TopLevel(id) \in analysed
    /\ pc = "done" => LeafTargets \subseteq analysed

\* The run has ended after process_top_levels gave up, in an SCC with leaf targets.
C2_Witness ==
    /\ pc = "done"
    /\ forced
    /\ LeafTargets # {}
    /\ LeafTargets \subseteq analysed

(***************************************************************************)
(* C3, as stated.  Every module of the SCC starts incomplete, and after    *)
(* the start of the run no step adds a module to incomplete_namespaces.    *)
(***************************************************************************)
C3_NeverIncompleteAgain ==
    [][pc # "call" => incomplete_namespaces' \subseteq incomplete_namespaces]_vars

(***************************************************************************)
(* C3, amended.  Every module of the SCC is incomplete when the first      *)
(* round starts, and no step of process_top_levels adds a module to        *)
(* incomplete_namespaces.  process_top_level_function adds the module of   *)
(* its target when it starts, and the module is not in the set when it     *)
(* returns; no other step adds a module.                                   *)
(***************************************************************************)
C3_MonotoneInTopLevels ==
    /\ [](pc = "outer" /\ iteration = 0 => Range(scc) \subseteq incomplete_namespaces)
    /\ [][/\ InTopLevels => incomplete_namespaces' \subseteq incomplete_namespaces
          /\ ~(incomplete_namespaces' \subseteq incomplete_namespaces) =>
                \/ pc = "call"
                \/ /\ pc = "functions" /\ pc' = "function"
                   /\ incomplete_namespaces' = incomplete_namespaces \cup {FnModule}
          /\ (pc = "function" /\ pc' = "functions") =>
                FnModule \notin incomplete_namespaces']_vars

\* A module that process_top_levels marked complete is incomplete again
\* while one of its functions is analysed.
C3_Witness ==
    /\ pc = "function"
    /\ fn_iteration >= 1
    /\ FnModule \in incomplete_namespaces

(***************************************************************************)
(* C4.  In round MAX_ITERATIONS incomplete_namespaces is empty from before *)
(* the first target is analysed to the end of the round, and a target is   *)
(* analysed with final_iteration = TRUE in round MAX_ITERATIONS and with   *)
(* final_iteration = FALSE in every earlier round.                         *)
(***************************************************************************)
C4_FinalRound ==
    /\ (InTopLevels /\ iteration = MAX_ITERATIONS) => incomplete_namespaces = {}
    /\ pc = "inner" => (final_iteration <=> iteration = MAX_ITERATIONS)
    /\ (InTopLevels /\ last # NoTarget) => (last.final <=> last.round = MAX_ITERATIONS)

\* A target has been analysed in round MAX_ITERATIONS, and another is to follow.
C4_Witness ==
    /\ pc = "inner"
    /\ iteration = MAX_ITERATIONS
    /\ last.round = MAX_ITERATIONS
    /\ last.final
    /\ worklist # <<>>

(***************************************************************************)
(* C5.  Every module of the SCC is in incomplete_namespaces when the first *)
(* round of process_top_levels starts, and none is when                    *)
(* semantic_analysis_for_scc returns.                                      *)
(***************************************************************************)
C5_IncompleteAtStartCompleteAtEnd ==
    /\ (pc = "outer" /\ iteration = 0) => Range(scc) \subseteq incomplete_namespaces
    /\ pc = "done" => incomplete_namespaces \cap Range(scc) = {}

\* The run has ended after process_top_levels gave up, in an SCC with a
\* module that has leaf targets and a module that has none.
C5_Witness ==
    /\ pc = "done"
    /\ forced
    /\ \E id \in Range(scc) : get_all_leaf_targets(id) = {}
    /\ \E id \in Range(scc) : get_all_leaf_targets(id) # {}
    /\ incomplete_namespaces = {}

(***************************************************************************)
(* The references between the modules of the SCC at module level: module   *)
(* m refers to module n when the top level of m refers to the name of n or *)
(* defines its own name from it.                                           *)
(***************************************************************************)

RefersTo(m) ==
    graph[m].top.refs \cup (IF graph[m].top.def = "from" THEN {graph[m].top.src} ELSE {})

\* The modules reached from m by a chain of one to k references.
RECURSIVE ReachedIn(_, _)
ReachedIn(m, k) ==
    IF k = 0 THEN {}
    ELSE RefersTo(m) \cup UNION {ReachedIn(n, k - 1) : n \in RefersTo(m)}

\* Some chain of references leads from a module back to itself.
CyclicReferences == \E m \in Range(scc) : m \in ReachedIn(m, Len(scc))

\* No module defines its name from the name of another module.
PlainDefinitions == \A m \in Range(scc) : graph[m].top.def # "from"

C7_Scenario ==
    /\ Len(scc) = 2
    /\ \A m \in Range(scc) :
          /\ ~graph[m].top.opaque
          /\ graph[m].top.def = "plain"
          /\ graph[m].top.refs = Range(scc) \ {m}

C7_MutualReferencesResolve ==
    C7_Scenario =>
        /\ errors = {}
        /\ ~forced
        /\ TopLevelsDone => Range(scc) \subseteq names

\* The first run of the scenario has ended; the module analysed first was
\* deferred for its reference to the other module, which was not bound yet.
C7_Witness ==
    /\ C7_Scenario
    /\ run = 1
    /\ pc = "done"
    /\ run_deferred[1]
    /\ Range(scc) \subseteq names
    /\ errors = {}

Exceptions == {"GeneratorExit", "StopIteration", "ValueError"}

\* No continuation block was entered (the fall-through of the switch).
NoBlock == -1

\* The label stored when the body has finished: no block has this index.
TerminalLabel == -1

\* A switch whose fall-through resumes the body at its start.
populate_switch_restarting(label, n) ==
    IF label \in 0..(n - 1) THEN label ELSE 0

\* Lines 107-111: the label is compared with each block's index in turn.
RECURSIVE SwitchFrom(_, _, _)
SwitchFrom(i, label, n) ==
    IF i >= n THEN NoBlock
    ELSE IF label = i THEN i
    ELSE SwitchFrom(i + 1, label, n)

\* A switch that leaves out the comparison with label 0.
populate_switch_without_start(label, n) == SwitchFrom(1, label, n)

\* Lines 102-114: the block the switch transfers control to, or NoBlock
\* where it raises StopIteration (line 113).
populate_switch_for_generator_class(label, n) == SwitchFrom(0, label, n)

\* Error handling blocks that raise nothing.
no_raise_exception_blocks(type) == FALSE

\* Lines 131-135: the exception given to the helper is raised when its type
\* is not None.
add_raise_exception_blocks_to_generator_class(type) == type # "None"

\* The straight body yield 1; ...; yield n - 1 runs from block k to the
\* yield at suspension point k + 1, whose value is k + 1, or, from the last
\* block, to its end.
StraightRuns(k, n) ==
    IF k < n - 1
    THEN {[kind |-> "return", exc |-> "-", label |-> k + 1]}
    ELSE {[kind |-> "raise", exc |-> "StopIteration", label |-> TerminalLabel]}

\* The body runs from block k to its next yield, to its end, or to an
\* exception.  A yield at suspension point j stores label j and returns the
\* value of that yield, written j; the end of the body stores the terminal
\* label and raises StopIteration; an exception leaves the label or stores
\* the terminal one.
BodyRuns(k, n) ==
    IF gen_straight THEN StraightRuns(k, n)
    ELSE {[kind |-> "return", exc |-> "-", label |-> j] : j \in 1..(n - 1)}
        \cup {[kind |-> "raise", exc |-> "StopIteration", label |-> TerminalLabel]}
        \cup {[kind |-> "raise", exc |-> e, label |-> l] :
                 e \in Exceptions, l \in {k, TerminalLabel}}

\* The exception check stands at the resume point of block k.  An exception
\* raised there leaves the body, or, at a yield within a try statement
\* (k > 0, not in a straight body), is caught by the body, which then runs on.
BodyEnds(k, n, type) ==
    IF add_raise_exception_blocks_to_generator_class(type)
    THEN {[kind |-> "raise", exc |-> type, label |-> l] : l \in {k, TerminalLabel}}
             \cup (IF k > 0 /\ ~gen_straight THEN BodyRuns(k, n) ELSE {})
    ELSE BodyRuns(k, n)

\* Lines 158-184 with 95-114: the ends of one call of the helper method.
helper(label, n, type) ==
    LET k == populate_switch_for_generator_class(label, n)
    IN  IF k = NoBlock
        THEN {[entered |-> NoBlock, injected |-> FALSE, kind |-> "raise",
               exc |-> "StopIteration", label |-> label]}
        ELSE {[entered |-> k,
               injected |-> add_raise_exception_blocks_to_generator_class(type),
               kind |-> o.kind, exc |-> o.exc, label |-> o.label] :
                  o \in BodyEnds(k, n, type)}

\* Optional arguments that are passed on as they came.
assign_nothing(v) == v

\* Lines 241-242: an omitted optional argument becomes None.
assign_if_null(v) == IF v = "NULL" THEN "None" ELSE v

\* A close() that takes only GeneratorExit for the end of the generator.
close_outcome_exit_only(inner) ==
    IF inner.kind = "return"
    THEN [kind |-> "raise", exc |-> "RuntimeError", result |-> "-"]
    ELSE IF inner.exc = "GeneratorExit"
    THEN [kind |-> "return", exc |-> "-", result |-> "None"]
    ELSE [kind |-> "raise", exc |-> inner.exc, result |-> "-"]

\* Lines 282-283: exc_matches against (GeneratorExit, StopIteration).
exc_matches(exc) == exc \in {"GeneratorExit", "StopIteration"}

\* Lines 271-306: how close() ends, given how its call of throw ended.
close_outcome(inner) ==
    IF inner.kind = "return"
    THEN [kind |-> "raise", exc |-> "RuntimeError", result |-> "-"]
    ELSE IF exc_matches(inner.exc)
    THEN [kind |-> "return", exc |-> "-", result |-> "None"]
    ELSE [kind |-> "raise", exc |-> inner.exc, result |-> "-"]

\* A generator object exists and may still be called.
Callable ==
    /\ pc = "idle"
    /\ gen_blocks > 0
    /\ gen_calls < MaxCalls

\* The value a call of the helper returns: that of the yield it stopped at.
Yielded(o) == IF o.kind = "return" THEN o.label ELSE 0

\* The trace of a straight body with one more call.
Traced(c) ==
    IF gen_straight
    THEN Append(gen_trace, [method |-> c.method, label |-> c.label,
                            entered |-> c.entered, injected |-> c.injected,
                            inner_exc |-> c.inner_exc, kind |-> c.kind,
                            exc |-> c.exc, yielded |-> c.yielded])
    ELSE gen_trace

\* One call of the helper by __next__, send or throw.
HelperCall(method, type, value, traceback, arg, given) ==
    \E o \in helper(next_label, gen_blocks, type) :
        /\ next_label' = o.label
        /\ gen_calls' = gen_calls + 1
        /\ gen_call' = [method |-> method, type |-> type, value |-> value,
                        traceback |-> traceback, arg |-> arg,
                        label |-> next_label, entered |-> o.entered,
                        injected |-> o.injected, throws |-> 0, inner |-> "-",
                        inner_exc |-> "-", kind |-> o.kind, exc |-> o.exc,
                        result |-> IF o.kind = "return" THEN "yielded" ELSE "-",
                        yielded |-> Yielded(o), given |-> given]
        /\ gen_trace' = Traced(gen_call')
        /\ UNCHANGED <<semVars, emitVars, apiVars, srvVars, condVars, gen_blocks, gen_straight>>

\* Lines 193-207.
add_next_to_generator_class ==
    /\ Callable
    /\ HelperCall("next", "None", "None", "None", "None", <<"-", "-">>)

\* Lines 210-225.
add_send_to_generator_class ==
    /\ Callable
    /\ \E arg \in {"None", "x"} :
          HelperCall("send", "None", "None", "None", arg, <<"-", "-">>)

\* Lines 228-252.
add_throw_to_generator_class ==
    /\ Callable
    /\ \E type \in Exceptions \cup {"None"}, val \in {"NULL", "v"},
          tb \in {"NULL", "tb"} :
          HelperCall("throw", type, assign_if_null(val), assign_if_null(tb), "None",
                     <<val, tb>>)

\* Lines 255-306: one call self.throw(GeneratorExit, None, None) (lines
\* 264-270), then the outcome of close_outcome.
add_close_to_generator_class ==
    /\ Callable
    /\ \E o \in helper(next_label, gen_blocks, "GeneratorExit") :
          LET c == close_outcome(o)
          IN  /\ next_label' = o.label
              /\ gen_calls' = gen_calls + 1
              /\ gen_call' = [method |-> "close", type |-> "GeneratorExit",
                              value |-> "None", traceback |-> "None",
                              arg |-> "None", label |-> next_label,
                              entered |-> o.entered, injected |-> o.injected,
                              throws |-> 1, inner |-> o.kind,
                              inner_exc |-> o.exc, kind |-> c.kind,
                              exc |-> c.exc, result |-> c.result,
                              yielded |-> 0, given |-> <<"-", "-">>]
              /\ gen_trace' = Traced(gen_call')
              /\ UNCHANGED <<semVars, emitVars, apiVars, srvVars, condVars, gen_blocks, gen_straight>>

\* No SCC is being analysed.
SchedulerIdle ==
    /\ scc = <<>>
    /\ graph = <<>>
    /\ incomplete_namespaces = {}
    /\ names = {}
    /\ errors = {}
    /\ worklist = <<>>
    /\ all_deferred = <<>>
    /\ iteration = 0
    /\ final_iteration = FALSE
    /\ fn_module = 1
    /\ fn_index = 1
    /\ fn_iteration = 0
    /\ more_iterations = FALSE
    /\ deferred = FALSE
    /\ incomplete = FALSE
    /\ pc = "idle"
    /\ run = 1
    /\ analysed = {}
    /\ last = NoTarget
    /\ run_deferred = [r \in 1..MaxRuns |-> FALSE]
    /\ run_errors = [r \in 1..MaxRuns |-> {}]
    /\ forced = FALSE
    /\ prev_deferred = <<>>
    /\ caller = "-"
    /\ nodes = <<>>
    /\ node_index = 1

\* Lines 60-80: a new object of a generator class of up to MaxYields
\* suspension points; its label is 0 (lines 78-79).
instantiate_generator_class ==
    /\ gen_blocks \in 1..(MaxYields + 1)
    /\ next_label = 0
    /\ gen_calls = 0
    /\ gen_call = NoCall
    /\ gen_straight \in BOOLEAN
    /\ gen_trace = <<>>

GenInit ==
    /\ SchedulerIdle
    /\ instantiate_generator_class
    /\ EmitterIdle
    /\ ApiIdle
    /\ ServerIdle
    /\ ConditionIdle

GenNext ==
    \/ add_next_to_generator_class
    \/ add_send_to_generator_class
    \/ add_throw_to_generator_class
    \/ add_close_to_generator_class

GenSpec == GenInit /\ [][GenNext]_vars

\* The indices of the continuation blocks.
BlockLabels == 0..(gen_blocks - 1)

(***************************************************************************)
(* C9.  Whenever the stored label is the index of no continuation block,   *)
(* a call of __next__, send or throw raises StopIteration, enters no block *)
(* of the body and leaves the label as it is, so that the same holds for   *)
(* every later call.                                                       *)
(***************************************************************************)
C9_ExhaustedStep ==
    (/\ next_label \notin BlockLabels
     /\ gen_calls' = gen_calls + 1
     /\ gen_call'.method \in {"next", "send", "throw"})
    => /\ gen_call'.kind = "raise"
       /\ gen_call'.exc = "StopIteration"
       /\ gen_call'.entered = NoBlock
       /\ ~gen_call'.injected
       /\ next_label' = next_label

C9_ExhaustedRaisesStopIteration == [][C9_ExhaustedStep]_vars

\* An exception other than StopIteration was thrown into a generator that
\* had finished two calls earlier or more; the call raised StopIteration.
C9_Witness ==
    /\ gen_call.method = "throw"
    /\ gen_call.type = "ValueError"
    /\ gen_call.label \notin BlockLabels
    /\ gen_call.exc = "StopIteration"
    /\ gen_calls >= 3

(***************************************************************************)
(* C10.  A call of close() makes one call throw(GeneratorExit, None,       *)
(* None); it returns None when that call raised GeneratorExit or           *)
(* StopIteration, raises the same exception when that call raised another  *)
(* one, and raises RuntimeError when that call returned.                   *)
(***************************************************************************)
C10_CloseOutcomes ==
    gen_call.method = "close" =>
        /\ gen_call.throws = 1
        /\ gen_call.type = "GeneratorExit"
        /\ gen_call.value = "None"
        /\ gen_call.traceback = "None"
        /\ gen_call.inner \in {"return", "raise"}
        /\ gen_call.inner = "return" =>
               (gen_call.kind = "raise" /\ gen_call.exc = "RuntimeError")
        /\ (gen_call.inner = "raise"
                /\ gen_call.inner_exc \in {"GeneratorExit", "StopIteration"}) =>
               (gen_call.kind = "return" /\ gen_call.result = "None")
        /\ (gen_call.inner = "raise"
                /\ gen_call.inner_exc \notin {"GeneratorExit", "StopIteration"}) =>
               (gen_call.kind = "raise" /\ gen_call.exc = gen_call.inner_exc)

\* close() on a suspended generator whose body ended by itself under the
\* GeneratorExit thrown at its yield: throw raised StopIteration, close()
\* returned None.
C10_Witness ==
    /\ gen_call.method = "close"
    /\ gen_call.label > 0
    /\ gen_call.entered = gen_call.label
    /\ gen_call.injected
    /\ gen_call.inner = "raise"
    /\ gen_call.inner_exc = "StopIteration"
    /\ gen_call.kind = "return"
    /\ gen_call.result = "None"

(***************************************************************************)
(* C11.  A generator whose body is yield 1; yield 2; yield 3: resumption   *)
(* calls (__next__, send) alone return 1, 2, 3 in that order and raise     *)
(* StopIteration from the fourth on; close() made after the first          *)
(* resumption enters the block after the first yield, has GeneratorExit    *)
(* raised there, and returns None.                                         *)
(***************************************************************************)
YieldsOneTwoThree == gen_straight /\ gen_blocks = 4

Resumption(i) == gen_trace[i].method \in {"next", "send"}

C11_OneTwoThree ==
    YieldsOneTwoThree =>
        /\ \A i \in 1..Len(gen_trace) :
              (\A j \in 1..i : Resumption(j)) =>
                  IF i <= 3
                  THEN gen_trace[i].kind = "return" /\ gen_trace[i].yielded = i
                  ELSE gen_trace[i].kind = "raise"
                          /\ gen_trace[i].exc = "StopIteration"
        /\ (Len(gen_trace) >= 2 /\ Resumption(1) /\ gen_trace[2].method = "close") =>
              /\ gen_trace[2].entered = 1
              /\ gen_trace[2].injected
              /\ gen_trace[2].inner_exc = "GeneratorExit"
              /\ gen_trace[2].kind = "return"

\* Four resumptions of the generator have been made.
C11_Witness ==
    /\ YieldsOneTwoThree
    /\ Len(gen_trace) = 4
    /\ \A i \in 1..4 : Resumption(i)
    /\ gen_trace[3].yielded = 3
    /\ gen_trace[4].exc = "StopIteration"

(***************************************************************************)
(* The C emitter (mypyc/codegen/emit.py).  An operation of the Emitter     *)
(* writes C code; the model gives what that code does when it runs on a    *)
(* value.  The representation types (mypyc/ir/rtypes.py) and the C runtime *)
(* the emitted code calls are not in emit.py; they are given as the        *)
(* specification describes them.                                           *)
(***************************************************************************)

\* Members of a tuple type drawn directly from the leaves, at most.
MaxWidth == 2

RPrimitive(n) == [kind |-> "prim", name |-> n, types |-> <<>>]

RTuple(ts) == [kind |-> "tuple", name |-> "tuple", types |-> ts]

RUnion(ts) == [kind |-> "union", name |-> "union", types |-> ts]

RInstance(c) == [kind |-> "instance", name |-> c, types |-> <<>>]

isRTuple(t) == t.kind = "tuple"

\* The primitives stored unboxed, and those of them whose error value is
\* also a value.
UnboxedNames == {"int", "short_int", "bool", "bit", "none", "int32", "int64", "float"}

OverlapNames == {"int32", "int64", "float"}

\* RType.is_unboxed
is_unboxed(t) ==
    \/ t.kind = "tuple"
    \/ t.kind = "prim" /\ t.name \in UnboxedNames

\* RType.error_overlap: of a tuple, all its members have it and there is one.
RECURSIVE error_overlap(_)
error_overlap(t) ==
    IF t.kind = "tuple"
    THEN Len(t.types) > 0 /\ \A i \in 1..Len(t.types) : error_overlap(t.types[i])
    ELSE t.kind = "prim" /\ t.name \in OverlapNames

\* RPrimitive.c_undefined of the unboxed primitives: CPY_INT_TAG for tagged
\* integers, 2 for bool, bit and None, -113 for fixed-width integers and
\* (as -113.0) for float.
c_undefined(n) ==
    IF n \in {"int", "short_int"} THEN 1
    ELSE IF n \in {"bool", "bit", "none"} THEN 2
    ELSE -113

\* Python objects and the null pointer.
PyObject(t, v) == [pytype |-> t, val |-> v, items |-> <<>>]

PyTuple(items) == [pytype |-> "tuple", val |-> 0, items |-> items]

NULL == PyObject("NULL", 0)

Py_None == PyObject("NoneType", 0)

Py_True == PyObject("bool", 1)

Py_False == PyObject("bool", 0)

\* Lines 475-489: the members of the undefined value of a tuple type; the
\* struct of an empty tuple has the one member empty_struct_error_flag.
\* Lines 317-327: the undefined value of a type, which is its error value.
RECURSIVE tuple_undefined_value_helper(_)
tuple_undefined_value_helper(rtuple) ==
    IF Len(rtuple.types) = 0
    THEN <<c_undefined("int")>>
    ELSE [i \in 1..Len(rtuple.types) |->
            LET item == rtuple.types[i]
            IN  IF isRTuple(item) THEN tuple_undefined_value_helper(item)
                ELSE IF ~is_unboxed(item) THEN NULL
                ELSE c_undefined(item.name)]

c_undefined_value(rtype) ==
    IF ~is_unboxed(rtype) THEN NULL
    ELSE IF rtype.kind = "prim" THEN c_undefined(rtype.name)
    ELSE tuple_undefined_value_helper(rtype)

c_error_value(rtype) == c_undefined_value(rtype)

\* The first member of a tuple type without error overlap (lines 454-458).
RECURSIVE FirstWithoutOverlap(_, _)
FirstWithoutOverlap(rtuple, i) ==
    IF ~error_overlap(rtuple.types[i]) THEN i ELSE FirstWithoutOverlap(rtuple, i + 1)

\* Lines 438-470, with compare "==" and c_type_compare_val c_error_value:
\* the value of the condition on a struct, PyErr_Occurred() being pending.
RECURSIVE tuple_undefined_check_cond(_, _, _, _)
tuple_undefined_check_cond(rtuple, struct, check_exception, pending) ==
    IF Len(rtuple.types) = 0
    THEN struct[1] = c_error_value(RPrimitive("int"))
    ELSE LET i == IF error_overlap(rtuple) THEN 1 ELSE FirstWithoutOverlap(rtuple, 1)
             item_type == rtuple.types[i]
         IN  IF isRTuple(item_type)
             THEN tuple_undefined_check_cond(item_type, struct[i], TRUE, pending)
             ELSE /\ struct[i] = c_error_value(item_type)
                  /\ (error_overlap(rtuple) /\ check_exception) => pending

\* An error check that compares the value only.
emit_error_check_value_only(value, rtype, pending) ==
    IF isRTuple(rtype)
    THEN IF Len(rtype.types) = 0
         THEN [emitted |-> FALSE, failure |-> FALSE]
         ELSE [emitted |-> TRUE,
               failure |-> tuple_undefined_check_cond(rtype, value, FALSE, pending)]
    ELSE [emitted |-> TRUE, failure |-> value = c_error_value(rtype)]

\* Lines 1042-1056: whether a check is emitted and whether it runs the
\* failure code.
emit_error_check(value, rtype, pending) ==
    IF isRTuple(rtype)
    THEN IF Len(rtype.types) = 0
         THEN [emitted |-> FALSE, failure |-> FALSE]
         ELSE [emitted |-> TRUE,
               failure |-> tuple_undefined_check_cond(rtype, value, TRUE, pending)]
    ELSE IF error_overlap(rtype)
    THEN [emitted |-> TRUE, failure |-> value = c_error_value(rtype) /\ pending]
    ELSE [emitted |-> TRUE, failure |-> value = c_error_value(rtype)]

\* The types of the model: the primitives, instance types, unions, tuples of
\* up to MaxWidth leaves, and tuples of one or two members that are leaves
\* or tuples of at most one leaf.
Primitives == {RPrimitive(n) : n \in UnboxedNames \cup {"object", "str"}}

TupleLeaves == {RPrimitive("int"), RPrimitive("int64"), RPrimitive("str")}

RECURSIVE TuplesOver(_, _)
TuplesOver(S, n) ==
    IF n = 0 THEN {<<>>}
    ELSE {<<>>} \cup {<<h>> \o r : h \in S, r \in TuplesOver(S, n - 1)}

FlatTuples == {RTuple(ts) : ts \in TuplesOver(TupleLeaves, MaxWidth)}

InnerTuples == {RTuple(ts) : ts \in TuplesOver(TupleLeaves, 1)}

NestedTuples ==
    {RTuple(ts) : ts \in TuplesOver(TupleLeaves \cup InnerTuples, 2) \ {<<>>}}

Tuples == FlatTuples \cup NestedTuples

\* The values of a type that are not errors as such; for a type with error
\* overlap the error value is among them.
PrimValues(n) ==
    IF n \in {"int", "short_int"} THEN {0, 2}
    ELSE IF n \in {"bool", "bit"} THEN {0, 1}
    ELSE IF n = "none" THEN {1}
    ELSE IF n \in OverlapNames THEN {-1, -113}
    ELSE IF n = "str" THEN {PyObject("str", 7)}
    ELSE {PyObject("str", 7), Py_None}

RECURSIVE ValidValues(_)
RECURSIVE ValidStructs(_)
ValidStructs(ts) ==
    IF ts = <<>> THEN {<<>>}
    ELSE {<<h>> \o r : h \in ValidValues(Head(ts)), r \in ValidStructs(Tail(ts))}

ValidValues(t) ==
    IF isRTuple(t)
    THEN IF Len(t.types) = 0 THEN {<<0>>} ELSE ValidStructs(t.types)
    ELSE IF t.kind = "prim" THEN PrimValues(t.name)
    ELSE {PyObject("C", 0)}

(***************************************************************************)
(* Casts (lines 560-829).  The C API checks and the class hierarchy are    *)
(* those of CPython and of mypyc's runtime.                                *)
(***************************************************************************)

\* mypyc.common.FAST_ISINSTANCE_MAX_SUBCLASSES (imported at line 15).
FAST_ISINSTANCE_MAX_SUBCLASSES == 2

\* all_concrete_classes(class_ir): class C has the subclass D; of class E
\* none is known.
all_concrete_classes(c) == IF c = "C" THEN <<"C", "D">> ELSE <<>>

\* PyObject_TypeCheck(o, c)
PyObject_TypeCheck(o, c) ==
    o.pytype = c \/ (c = "C" /\ o.pytype = "D")

\* Py<prefix>_Check(o) of lines 604-622 and 634, 643, 673.
PyLong_Check(o) == o.pytype \in {"int", "bool"}

PyBool_Check(o) == o.pytype = "bool"

CPyFloat_Check(o) == o.pytype = "float" \/ PyLong_Check(o)

TypeNameCheck(n, o) ==
    IF n \in {"int", "short_int", "int32", "int64"} THEN PyLong_Check(o)
    ELSE IF n \in {"bool", "bit"} THEN PyBool_Check(o)
    ELSE IF n = "float" THEN CPyFloat_Check(o)
    ELSE IF n = "bytes" THEN o.pytype \in {"bytes", "bytearray"}
    ELSE IF n = "none" THEN o = Py_None
    ELSE o.pytype = n

\* The primitives emit_cast checks with one C API call (lines 590-651, 673).
CastChecked ==
    {"list", "dict", "set", "str", "range", "float", "int", "bool", "bit",
     "int32", "int64", "bytes", "tuple", "none"}

\* Lines 652-672: the check of an instance type.
InstanceCheck(c, o) ==
    LET concrete == all_concrete_classes(c)
    IN  IF concrete = <<>> \/ Len(concrete) > FAST_ISINSTANCE_MAX_SUBCLASSES + 1
        THEN PyObject_TypeCheck(o, c)
        ELSE \E i \in 1..Len(concrete) : o.pytype = concrete[i]

\* The error handlers (lines 128-160).
AssignHandler == [kind |-> "Assign", label |-> "-", value |-> "-"]

GotoHandler == [kind |-> "Goto", label |-> "L", value |-> "-"]

TracebackAndGotoHandler == [kind |-> "TracebackAndGoto", label |-> "L", value |-> "-"]

ReturnHandler == [kind |-> "Return", label |-> "-", value |-> "R"]

ErrorHandlers == {AssignHandler, GotoHandler, TracebackAndGotoHandler, ReturnHandler}

\* The destination variable before anything is assigned to it.
Unset == PyObject("unset", 0)

\* What a piece of emitted code did: the destination, where control went
\* ("next": on to the code that follows; "goto"; "return"; "assert": the
\* emitter itself failed an assertion), the TypeErrors raised, the
\* traceback entries added, the runs of the handler passed in, and the
\* union members tested.
Did(dest, flow, target, type_errors, tracebacks, handled) ==
    [dest |-> dest, flow |-> flow, target |-> target, type_errors |-> type_errors,
     tracebacks |-> tracebacks, handled |-> handled, tested |-> <<>>]

AssertionError == Did(Unset, "assert", "-", 0, 0, 0)

\* Lines 727-749.
emit_cast_error_handler(error, raise_exception) ==
    IF raise_exception /\ error.kind = "TracebackAndGoto"
    THEN Did(Unset, "goto", error.label, 1, 1, 1)
    ELSE LET raised == IF raise_exception THEN 1 ELSE 0
         IN  IF error.kind = "Assign" THEN Did(NULL, "next", "-", raised, 0, 1)
             ELSE IF error.kind = "Goto" THEN Did(Unset, "goto", error.label, raised, 0, 1)
             ELSE IF error.kind = "TracebackAndGoto"
             THEN Did(NULL, "goto", error.label, raised, 1, 1)
             ELSE Did(Unset, "return", error.value, raised, 0, 1)

RECURSIVE emit_cast(_, _, _, _, _)
RECURSIVE TupleItemsCast(_, _, _)
RECURSIVE UnionItemsCast(_, _, _, _, _)

\* A union cast that tries the last member of the union only.
UnionItemsCastLast(src, typ, error, raise_exception, i) ==
    LET n == Len(typ.types)
        item == emit_cast(src, typ.types[n], AssignHandler, FALSE, FALSE)
    IN  IF item.dest # NULL
        THEN [Did(item.dest, "next", "-", 0, 0, 0) EXCEPT !.tested = <<typ.types[n]>>]
        ELSE [emit_cast_error_handler(error, raise_exception) EXCEPT
                  !.tested = <<typ.types[n]>>]

\* Lines 816-826: the members of the tuple are cast in turn, members i and
\* after; the first that fails leaves NULL in dest.
TupleItemsCast(src, typ, i) ==
    IF i > Len(typ.types) THEN Did(src, "next", "-", 0, 0, 0)
    ELSE LET item == emit_cast(src.items[i], typ.types[i], AssignHandler, FALSE, FALSE)
         IN  IF item.flow = "assert" THEN AssertionError
             ELSE IF item.dest = NULL THEN Did(NULL, "next", "-", 0, 0, 0)
             ELSE TupleItemsCast(src, typ, i + 1)

\* Lines 789-829.  The argument error is not used.
emit_tuple_cast(src, typ, error) ==
    IF ~(src.pytype = "tuple" /\ Len(src.items) = Len(typ.types))
    THEN Did(NULL, "next", "-", 0, 0, 0)
    ELSE TupleItemsCast(src, typ, 1)

\* Lines 772-785: the members of the union are tried in turn, members i and
\* after; after the last the handler runs.
UnionItemsCast(src, typ, error, raise_exception, i) ==
    IF i > Len(typ.types)
    THEN [emit_cast_error_handler(error, raise_exception) EXCEPT
              !.tested = typ.types]
    ELSE LET item == emit_cast(src, typ.types[i], AssignHandler, FALSE, FALSE)
         IN  IF item.flow = "assert" THEN AssertionError
             ELSE IF item.dest # NULL
             THEN [Did(item.dest, "next", "-", 0, 0, 0) EXCEPT
                       !.tested = SubSeq(typ.types, 1, i)]
             ELSE UnionItemsCast(src, typ, error, raise_exception, i + 1)

\* Lines 751-787.
emit_union_cast(src, typ, error, optional, raise_exception) ==
    IF optional /\ src = NULL
    THEN Did(c_error_value(typ), "next", "-", 0, 0, 0)
    ELSE UnionItemsCast(src, typ, error, raise_exception, 1)

\* Lines 560-725, without a src_type.
emit_cast(src, typ, error, raise_exception, optional) ==
    IF typ.kind = "union"
    THEN emit_union_cast(src, typ, error, optional, raise_exception)
    ELSE IF isRTuple(typ)
    THEN IF optional THEN AssertionError ELSE emit_tuple_cast(src, typ, error)
    ELSE IF optional /\ src = NULL
    THEN Did(c_error_value(typ), "next", "-", 0, 0, 0)
    ELSE IF typ.kind = "prim" /\ typ.name = "object"
    THEN Did(src, "next", "-", 0, 0, 0)
    ELSE IF typ.kind = "instance" \/ typ.name \in CastChecked
    THEN IF (IF typ.kind = "instance" THEN InstanceCheck(typ.name, src)
             ELSE TypeNameCheck(typ.name, src))
         THEN Did(src, "next", "-", 0, 0, 0)
         ELSE emit_cast_error_handler(error, raise_exception)
    ELSE AssertionError

\* Whether the runtime type of an object is the given type.
RECURSIVE Matches(_, _)
Matches(o, typ) ==
    IF typ.kind = "union" THEN \E i \in 1..Len(typ.types) : Matches(o, typ.types[i])
    ELSE IF isRTuple(typ)
    THEN /\ o.pytype = "tuple"
         /\ Len(o.items) = Len(typ.types)
         /\ \A i \in 1..Len(typ.types) : Matches(o.items[i], typ.types[i])
    ELSE IF typ.kind = "instance" THEN PyObject_TypeCheck(o, typ.name)
    ELSE IF typ.name = "object" THEN TRUE
    ELSE TypeNameCheck(typ.name, o)

(***************************************************************************)
(* Unboxing and boxing (lines 840-1040).  CPyTagged_FromObject and         *)
(* CPyTagged_StealAsObject convert between a Python int and a short tagged *)
(* integer, which holds twice the number; CPyLong_AsInt32/64 and           *)
(* PyFloat_AsDouble return their error value and raise TypeError for an    *)
(* object that is no number.                                               *)
(***************************************************************************)

CPyTagged_FromObject(o) == o.val * 2

CPyTagged_StealAsObject(v) == PyObject("int", v \div 2)

\* Lines 879-888: the code run on failure, or the assertion of line 885.
UnboxFailure(error, typ, raise_exception) ==
    LET raised == IF raise_exception THEN 1 ELSE 0
    IN  IF error.kind = "Assign"
        THEN Did(c_error_value(typ), "next", "-", raised, 0, 1)
        ELSE IF error.kind = "Goto"
        THEN Did(Unset, "goto", error.label, raised, 0, 1)
        ELSE IF error.kind = "Return"
        THEN Did(Unset, "return", error.value, raised, 0, 1)
        ELSE AssertionError

RECURSIVE SumTypeErrors(_, _)
SumTypeErrors(outs, i) ==
    IF i > Len(outs) THEN 0 ELSE outs[i].type_errors + SumTypeErrors(outs, i + 1)

\* An unboxing of bool that takes Py_False for true.
UnboxBoolInverted(src) == IF src = Py_False THEN 1 ELSE 0

\* Line 908: the conversion src == Py_True.
UnboxBool(src) == IF src = Py_True THEN 1 ELSE 0

\* Lines 840-985.
RECURSIVE emit_unbox(_, _, _, _, _, _)
emit_unbox(src, typ, error, raise_exception, optional, pending) ==
    LET failure == UnboxFailure(error, typ, raise_exception)
    IN  IF failure.flow = "assert" THEN AssertionError
        ELSE IF typ.kind = "prim" /\ typ.name \in {"int", "short_int"}
        THEN IF optional /\ src = NULL THEN Did(c_error_value(typ), "next", "-", 0, 0, 0)
             ELSE IF PyLong_Check(src)
             THEN Did(CPyTagged_FromObject(src), "next", "-", 0, 0, 0)
             ELSE failure
        ELSE IF typ.kind = "prim" /\ typ.name \in {"bool", "bit"}
        THEN IF optional /\ src = NULL THEN Did(c_error_value(typ), "next", "-", 0, 0, 0)
             ELSE IF ~PyBool_Check(src) THEN failure
             ELSE Did(UnboxBool(src), "next", "-", 0, 0, 0)
        ELSE IF typ.kind = "prim" /\ typ.name = "none"
        THEN IF optional /\ src = NULL THEN Did(c_error_value(typ), "next", "-", 0, 0, 0)
             ELSE IF src # Py_None THEN failure
             ELSE Did(1, "next", "-", 0, 0, 0)
        ELSE IF typ.kind = "prim" /\ typ.name \in {"int64", "int32"}
        THEN \* dest = CPyLong_AsInt64(src); failure is not handled
             IF PyLong_Check(src) THEN Did(src.val, "next", "-", 0, 0, 0)
             ELSE Did(c_undefined(typ.name), "next", "-", 1, 0, 0)
        ELSE IF typ.kind = "prim" /\ typ.name = "float"
        THEN \* dest = PyFloat_AsDouble(src); -1.0 with an error pending is -113.0
             IF CPyFloat_Check(src)
             THEN Did(IF src.val = -1 /\ pending THEN -113 ELSE src.val,
                      "next", "-", 0, 0, 0)
             ELSE Did(-113, "next", "-", 1, 0, 0)
        ELSE IF isRTuple(typ)
        THEN IF optional /\ src = NULL THEN Did(c_error_value(typ), "next", "-", 0, 0, 0)
             ELSE LET cast_temp == emit_tuple_cast(src, typ, error)
                  IN  IF cast_temp.flow = "assert" THEN AssertionError
                      ELSE IF cast_temp.dest = NULL THEN failure
                      ELSE IF typ.types = <<>> THEN Did(<<0>>, "next", "-", 0, 0, 0)
                      ELSE LET outs == [i \in 1..Len(typ.types) |->
                                          IF is_unboxed(typ.types[i])
                                          THEN emit_unbox(src.items[i], typ.types[i], error,
                                                          raise_exception, FALSE, pending)
                                          ELSE emit_cast(src.items[i], typ.types[i],
                                                         AssignHandler, TRUE, FALSE)]
                               left == {i \in 1..Len(outs) : outs[i].flow # "next"}
                           IN  IF left # {}
                               THEN outs[CHOOSE i \in left : \A j \in left : i <= j]
                               ELSE Did([i \in 1..Len(outs) |-> outs[i].dest], "next",
                                        "-", SumTypeErrors(outs, 1), 0, 0)
        ELSE AssertionError

\* Lines 987-1040.
RECURSIVE emit_box(_, _)
emit_box(src, typ) ==
    IF typ.kind = "prim" /\ typ.name \in {"int", "short_int"}
    THEN CPyTagged_StealAsObject(src)
    ELSE IF typ.kind = "prim" /\ typ.name \in {"bool", "bit"}
    THEN IF src # 0 THEN Py_True ELSE Py_False
    ELSE IF typ.kind = "prim" /\ typ.name = "none" THEN Py_None
    ELSE IF typ.kind = "prim" /\ typ.name \in {"int32", "int64"}
    THEN PyObject("int", src)
    ELSE IF typ.kind = "prim" /\ typ.name = "float" THEN PyObject("float", src)
    ELSE IF isRTuple(typ)
    THEN PyTuple([i \in 1..Len(typ.types) |-> emit_box(src[i], typ.types[i])])
    ELSE src

(***************************************************************************)
(* The specification of the emitter: one operation on arguments drawn from *)
(* the types, values and objects of the model.                             *)
(***************************************************************************)

Unions ==
    {RUnion(<<RPrimitive("int"), RPrimitive("str")>>),
     RUnion(<<RPrimitive("int"), RPrimitive("float")>>),
     RUnion(<<RPrimitive("str"), RPrimitive("none")>>),
     RUnion(<<RInstance("C"), RTuple(<<RPrimitive("int")>>)>>),
     RUnion(<<RUnion(<<RPrimitive("int"), RPrimitive("str")>>), RPrimitive("none")>>)}

Instances == {RInstance("C"), RInstance("E")}

CastTypes ==
    {RPrimitive(n) : n \in {"int", "bool", "bit", "float", "int32", "int64",
                            "str", "none", "object", "tuple"}}
        \cup Instances \cup Unions \cup Tuples

UnboxTypes == {RPrimitive(n) : n \in UnboxedNames} \cup Tuples

\* The unboxed types whose unboxing emit_unbox guards against a null source.
OptionalUnbox(t) == isRTuple(t) \/ t.name \in {"int", "short_int", "bool", "bit", "none"}

IntObject == PyObject("int", 3)

StrObject == PyObject("str", 7)

Objects ==
    {IntObject, StrObject, Py_True, Py_None, PyObject("float", -1),
     PyObject("C", 0), PyObject("D", 0), PyObject("E", 0),
     PyTuple(<<>>), PyTuple(<<IntObject>>), PyTuple(<<StrObject>>),
     PyTuple(<<IntObject, StrObject>>), PyTuple(<<PyTuple(<<IntObject>>), IntObject>>)}

(***************************************************************************)
(* emit_inc_ref and emit_dec_ref (emit.py:505-552).  The lines emitted are *)
(* records of the macro called and the C expression it is called on, the   *)
(* path of struct fields f0, f1, ... from dest.                            *)
(***************************************************************************)

\* is_int_rprimitive (rtypes.py): the tagged int, not the short int.
is_int_rprimitive(rtype) == rtype.kind = "prim" /\ rtype.name = "int"

\* An increment that does not go into tuples.
emit_inc_ref_flat(dest, rtype, rare) ==
    IF is_int_rprimitive(rtype)
    THEN <<[macro |-> IF rare THEN "CPyTagged_IncRef" ELSE "CPyTagged_INCREF",
            dest |-> dest]>>
    ELSE IF ~is_unboxed(rtype)
    THEN <<[macro |-> "CPy_INCREF", dest |-> dest]>>
    ELSE <<>>

RECURSIVE emit_inc_ref(_, _, _)
RECURSIVE emit_dec_ref(_, _, _, _)
RECURSIVE IncRefItems(_, _, _)
RECURSIVE DecRefItems(_, _, _, _, _)

\* Lines 518-519: the loop over the members, from member i on; the call
\* does not pass rare on.
IncRefItems(dest, rtype, i) ==
    IF i > Len(rtype.types) THEN <<>>
    ELSE emit_inc_ref(Append(dest, i - 1), rtype.types[i], FALSE)
             \o IncRefItems(dest, rtype, i + 1)

\* Lines 505-524.
emit_inc_ref(dest, rtype, rare) ==
    IF is_int_rprimitive(rtype)
    THEN <<[macro |-> IF rare THEN "CPyTagged_IncRef" ELSE "CPyTagged_INCREF",
            dest |-> dest]>>
    ELSE IF isRTuple(rtype)
    THEN IncRefItems(dest, rtype, 1)
    ELSE IF ~is_unboxed(rtype)
    THEN <<[macro |-> "CPy_INCREF", dest |-> dest]>>
    ELSE <<>>

\* Lines 543-544: the loop over the members, from member i on.
DecRefItems(dest, rtype, is_xdec, rare, i) ==
    IF i > Len(rtype.types) THEN <<>>
    ELSE emit_dec_ref(Append(dest, i - 1), rtype.types[i], is_xdec, rare)
             \o DecRefItems(dest, rtype, is_xdec, rare, i + 1)

\* Lines 526-552.
emit_dec_ref(dest, rtype, is_xdec, rare) ==
    IF is_int_rprimitive(rtype)
    THEN <<[macro |-> IF rare
                      THEN (IF is_xdec THEN "CPyTagged_XDecRef" ELSE "CPyTagged_DecRef")
                      ELSE (IF is_xdec THEN "CPyTagged_XDECREF" ELSE "CPyTagged_DECREF"),
            dest |-> dest]>>
    ELSE IF isRTuple(rtype)
    THEN DecRefItems(dest, rtype, is_xdec, rare, 1)
    ELSE IF ~is_unboxed(rtype)
    THEN <<[macro |-> IF rare
                      THEN (IF is_xdec THEN "CPy_XDecRef" ELSE "CPy_DecRef")
                      ELSE (IF is_xdec THEN "CPy_XDECREF" ELSE "CPy_DECREF"),
            dest |-> dest]>>
    ELSE <<>>

\* The types whose reference counts are changed: those of the model and
\* tuples with members that are not reference counted.
RefTypes ==
    Primitives \cup Instances \cup Unions \cup Tuples
        \cup {RTuple(<<RPrimitive("bool"), RPrimitive("str")>>),
              RTuple(<<RPrimitive("short_int"),
                       RTuple(<<RPrimitive("int"), RPrimitive("bool")>>),
                       RPrimitive("object")>>),
              RTuple(<<RTuple(<<>>), RInstance("C"), RPrimitive("float")>>)}

(***************************************************************************)
(* error_value_check and emit_undefined_attr_check (emit.py:408-436), with *)
(* compare "==": the value of the condition on a value of the attribute.   *)
(***************************************************************************)

\* Lines 430-436.
error_value_check(rtype, value, pending) ==
    IF isRTuple(rtype)
    THEN tuple_undefined_check_cond(rtype, value, FALSE, pending)
    ELSE value = c_error_value(rtype)

\* Lines 419-428: the condition of the if statement emitted; bit: the bit
\* of the attribute is set in the bitmap of the object.
emit_undefined_attr_check(rtype, value, bit, pending) ==
    IF error_overlap(rtype)
    THEN error_value_check(rtype, value, pending) /\ ~bit
    ELSE error_value_check(rtype, value, pending)

EmitInit ==
    /\ SchedulerIdle
    /\ GeneratorIdle
    /\ ApiIdle
    /\ ServerIdle
    /\ ConditionIdle
    /\ emit_out = [op |-> "-"]
    /\ \/ \E t \in Primitives \cup Tuples \cup Instances \cup Unions, p \in BOOLEAN :
            \E v \in ValidValues(t) \cup {c_error_value(t)} :
                emit_call = [op |-> "error_check", rtype |-> t, value |-> v,
                             pending |-> p]
       \/ \E t \in CastTypes, e \in ErrorHandlers, r \in BOOLEAN, o \in BOOLEAN :
            \E s \in IF o THEN {NULL} ELSE Objects :
                /\ o => ~isRTuple(t)
                /\ emit_call = [op |-> "cast", typ |-> t, src |-> s, error |-> e,
                                raise_exception |-> r, optional |-> o]
       \/ \E t \in UnboxTypes, e \in ErrorHandlers, r \in BOOLEAN, o \in BOOLEAN,
             p \in BOOLEAN :
            \E s \in IF o THEN {NULL} ELSE Objects :
                /\ o => OptionalUnbox(t)
                /\ emit_call = [op |-> "unbox", typ |-> t, src |-> s, error |-> e,
                                raise_exception |-> r, optional |-> o, pending |-> p]
       \/ \E t \in UnboxTypes, e \in ErrorHandlers \ {TracebackAndGotoHandler},
             r \in BOOLEAN :
            \E v \in ValidValues(t) :
                emit_call = [op |-> "box", typ |-> t, src |-> v, error |-> e,
                             raise_exception |-> r]
       \/ \E t \in RefTypes, x \in BOOLEAN, r \in BOOLEAN :
            emit_call = [op |-> "refcount", rtype |-> t, is_xdec |-> x, rare |-> r]
       \/ \E t \in Primitives \cup Tuples \cup Instances, b \in BOOLEAN, p \in BOOLEAN :
            \E v \in ValidValues(t) \cup {c_error_value(t)} :
                emit_call = [op |-> "attr_check", rtype |-> t, value |-> v,
                             bit |-> b, pending |-> p]

EmitDone(out) ==
    /\ emit_out.op = "-"
    /\ emit_out' = out
    /\ UNCHANGED <<semVars, genVars, apiVars, srvVars, condVars, emit_call>>

\* The check of emit_error_check runs on the value.
EmitErrorCheck ==
    /\ emit_call.op = "error_check"
    /\ LET c == emit_error_check(emit_call.value, emit_call.rtype, emit_call.pending)
       IN  EmitDone([op |-> "error_check", emitted |-> c.emitted, failure |-> c.failure])

\* The code of emit_cast runs on the object.
EmitCast ==
    /\ emit_call.op = "cast"
    /\ EmitDone([op |-> "cast",
                 did |-> emit_cast(emit_call.src, emit_call.typ, emit_call.error,
                                   emit_call.raise_exception, emit_call.optional)])

\* The code of emit_unbox runs on the object.
EmitUnbox ==
    /\ emit_call.op = "unbox"
    /\ EmitDone([op |-> "unbox",
                 did |-> emit_unbox(emit_call.src, emit_call.typ, emit_call.error,
                                    emit_call.raise_exception, emit_call.optional,
                                    emit_call.pending)])

\* The code of emit_box runs on the value, then that of emit_unbox on the
\* object it made.
EmitBoxUnbox ==
    /\ emit_call.op = "box"
    /\ LET boxed == emit_box(emit_call.src, emit_call.typ)
       IN  EmitDone([op |-> "box", boxed |-> boxed,
                     did |-> emit_unbox(boxed, emit_call.typ, emit_call.error,
                                        emit_call.raise_exception, FALSE, FALSE)])

\* emit_inc_ref and emit_dec_ref emit their lines for the same expression.
EmitRefcount ==
    /\ emit_call.op = "refcount"
    /\ EmitDone([op |-> "refcount",
                 inc |-> emit_inc_ref(<<>>, emit_call.rtype, emit_call.rare),
                 dec |-> emit_dec_ref(<<>>, emit_call.rtype, emit_call.is_xdec,
                                      emit_call.rare)])

\* The check of emit_undefined_attr_check runs on the value of an attribute.
EmitUndefinedAttrCheck ==
    /\ emit_call.op = "attr_check"
    /\ EmitDone([op |-> "attr_check",
                 check |-> error_value_check(emit_call.rtype, emit_call.value,
                                             emit_call.pending),
                 undefined |-> emit_undefined_attr_check(emit_call.rtype,
                                   emit_call.value, emit_call.bit, emit_call.pending)])

EmitNext ==
    \/ EmitErrorCheck
    \/ EmitCast
    \/ EmitUnbox
    \/ EmitBoxUnbox
    \/ EmitRefcount
    \/ EmitUndefinedAttrCheck

EmitSpec == EmitInit /\ [][EmitNext]_vars

(***************************************************************************)
(* C12, as stated.  For a type without error overlap the check of          *)
(* emit_error_check takes the failure branch exactly when the value is the *)
(* error value of the type, whether an exception is pending or not.        *)
(***************************************************************************)
C12_ErrorCheckWithoutOverlap ==
    (emit_out.op = "error_check" /\ ~error_overlap(emit_call.rtype)) =>
        (emit_out.failure <=> emit_call.value = c_error_value(emit_call.rtype))

(***************************************************************************)
(* C13.  For a type with error overlap, on the error value of the type the *)
(* check of emit_error_check takes the failure branch when an exception is *)
(* pending and does not take it when none is.                              *)
(***************************************************************************)
C13_ErrorCheckWithOverlap ==
    (/\ emit_out.op = "error_check"
     /\ error_overlap(emit_call.rtype)
     /\ emit_call.value = c_error_value(emit_call.rtype)) =>
        (emit_out.failure <=> emit_call.pending)

\* The error value of a nested tuple of overlapping members was checked
\* with no exception pending; the failure branch was not taken.
C13_Witness ==
    /\ emit_out.op = "error_check"
    /\ emit_call.rtype = RTuple(<<RTuple(<<RPrimitive("int64")>>), RPrimitive("int64")>>)
    /\ emit_call.value = c_error_value(emit_call.rtype)
    /\ ~emit_call.pending
    /\ ~emit_out.failure

\* The action of a handler was executed by the code: NULL (for unboxing,
\* the error value err) assigned to dest, a jump to the handler's label, or
\* a return of the handler's value.
HandlerExecuted(d, error, err) ==
    /\ error.kind = "Assign" => (d.flow = "next" /\ d.dest = err)
    /\ error.kind \in {"Goto", "TracebackAndGoto"} =>
           (d.flow = "goto" /\ d.target = error.label)
    /\ error.kind = "Return" => (d.flow = "return" /\ d.target = error.value)

\* A cast of an object to a type was made (not of a null pointer).
CastOf(kinds) ==
    /\ emit_out.op = "cast"
    /\ ~emit_call.optional
    /\ emit_call.typ.kind \in kinds

\* The members of a union type that accept an object.
Accepting(typ, o) == {i \in 1..Len(typ.types) : Matches(o, typ.types[i])}

(***************************************************************************)
(* C14.  The code of emit_union_cast tests the members of the union in the *)
(* order of typ.items; at the first member that accepts the object it      *)
(* stops, with the object in dest, no run of the handler and no TypeError; *)
(* when no member accepts the object the handler runs once and at most one *)
(* TypeError is raised.                                                    *)
(***************************************************************************)
C14_UnionCast ==
    CastOf({"union"}) =>
        LET typ == emit_call.typ
            d == emit_out.did
            accepting == Accepting(typ, emit_call.src)
        IN  IF accepting # {}
            THEN /\ d.tested = SubSeq(typ.types, 1,
                                      CHOOSE i \in accepting : \A j \in accepting : i <= j)
                 /\ d.dest = emit_call.src
                 /\ d.flow = "next"
                 /\ d.handled = 0
                 /\ d.type_errors = 0
            ELSE /\ d.tested = typ.types
                 /\ d.handled = 1
                 /\ HandlerExecuted(d, emit_call.error,
                                    IF d.flow = "next" THEN NULL ELSE d.dest)
                 /\ d.type_errors <= 1
                 /\ d.type_errors = 1 <=> emit_call.raise_exception

\* A str object was cast to the union of int and str: both members were
\* tested and the object is in dest.
C14_Witness ==
    /\ CastOf({"union"})
    /\ emit_call.src = StrObject
    /\ emit_call.typ = RUnion(<<RPrimitive("int"), RPrimitive("str")>>)
    /\ Len(emit_out.did.tested) = 2
    /\ emit_out.did.dest = StrObject
    /\ emit_out.did.handled = 0

(***************************************************************************)
(* C15, as stated.  Whenever the object cast by the code of emit_cast does *)
(* not match the target type (primitive, instance, None, union or tuple),  *)
(* the action of the handler passed in is executed.                        *)
(***************************************************************************)
C15_CastMismatchHandled ==
    (CastOf({"prim", "instance", "union", "tuple"})
        /\ ~Matches(emit_call.src, emit_call.typ)) =>
        HandlerExecuted(emit_out.did, emit_call.error,
                        IF emit_out.did.flow = "next" THEN NULL ELSE emit_out.did.dest)

\* An unboxing of an object was made (not of a null pointer).
UnboxOf ==
    /\ emit_out.op = "unbox"
    /\ ~emit_call.optional

(***************************************************************************)
(* C16, as stated.  emit_unbox fails no assertion with any of the four     *)
(* handlers, and whenever the object unboxed by its code does not match    *)
(* the type, TypeError is raised if raise_exception is set and the action  *)
(* of the handler passed in is executed.                                   *)
(***************************************************************************)
C16_UnboxMismatchHandled ==
    UnboxOf =>
        /\ emit_out.did.flow # "assert"
        /\ ~Matches(emit_call.src, emit_call.typ) =>
              /\ HandlerExecuted(emit_out.did, emit_call.error,
                                 IF emit_out.did.flow = "next"
                                 THEN c_error_value(emit_call.typ)
                                 ELSE emit_out.did.dest)
              /\ emit_call.raise_exception => emit_out.did.type_errors = 1

\* The types of the round trip: bool, bit, None, tagged and fixed-width
\* integers, and tuples of these.
RECURSIVE RoundTripType(_)
RoundTripType(t) ==
    IF isRTuple(t) THEN \A i \in 1..Len(t.types) : RoundTripType(t.types[i])
    ELSE t.name \in {"bool", "bit", "none", "int", "short_int", "int32", "int64"}

MaxErrors == 3

FileNames == {1, 2}
LineNrs == {2, 10}
Descriptions == {1, 2}

StaticTypingError(id, file, line, message, only_once) ==
    [kind |-> "StaticTypingError", id |-> id, file_name |-> file, line_nr |-> line,
     description |-> message, only_once |-> only_once]

\* The CompilationError made of the CompileError that build raised.
CompilationError ==
    [kind |-> "CompilationError", id |-> 0, file_name |-> 0, line_nr |-> 0,
     description |-> 0, only_once |-> FALSE]

\* old_error = None
None == [kind |-> "None", id |-> 0, file_name |-> 0, line_nr |-> 0,
         description |-> 0, only_once |-> FALSE]

\* The decimal digits of a line number below 100: CompilationError splits
\* the line number out of the text of the message and keeps it as a string.
Digits(n) == IF n < 10 THEN <<n>> ELSE <<n \div 10, n % 10>>

\* The order of two strings of digits.
RECURSIVE StrLess(_, _)
StrLess(a, b) ==
    IF b = <<>> THEN FALSE
    ELSE IF a = <<>> THEN TRUE
    ELSE IF Head(a) # Head(b) THEN Head(a) < Head(b)
    ELSE StrLess(Tail(a), Tail(b))

\* line_nr of a before line_nr of b: integers after a build, strings after
\* a CompileError.
LineLess(a, b, as_text) ==
    IF as_text THEN StrLess(Digits(a.line_nr), Digits(b.line_nr))
    ELSE a.line_nr < b.line_nr

\* The order of the key (error.file_name, error.line_nr, error.description).
KeyLess(a, b, as_text) ==
    \/ a.file_name < b.file_name
    \/ a.file_name = b.file_name /\ LineLess(a, b, as_text)
    \/ a.file_name = b.file_name /\ a.line_nr = b.line_nr
         /\ a.description < b.description

SameKey(a, b) ==
    /\ a.file_name = b.file_name
    /\ a.line_nr = b.line_nr
    /\ a.description = b.description

\* sorted (static_typing_errors, key = ...): stable, equal keys keep the
\* order of the list.
RECURSIVE InsertSorted(_, _, _)
InsertSorted(e, s, as_text) ==
    IF s = <<>> THEN <<e>>
    ELSE IF KeyLess(e, Head(s), as_text) THEN <<e>> \o s
    ELSE <<Head(s)>> \o InsertSorted(e, Tail(s), as_text)

RECURSIVE sorted(_, _)
sorted(sorted_errors, as_text) ==
    IF sorted_errors = <<>> THEN <<>>
    ELSE InsertSorted(Last(sorted_errors), sorted(Front(sorted_errors), as_text), as_text)

\* The loop of validate from the i-th error of the sorted list on.
RECURSIVE ValidateLoop(_, _, _, _)
ValidateLoop(sorted_errors, i, old_error, validation_messages) ==
    IF i > Len(sorted_errors)
    THEN [raised |-> "-", messages |-> validation_messages]
    ELSE LET error == sorted_errors[i]
             index == i - 1
         IN  IF index = 0
             THEN ValidateLoop(sorted_errors, i + 1, old_error, validation_messages)
             ELSE IF ~error.only_once
             THEN ValidateLoop(sorted_errors, i + 1, error,
                               Append(validation_messages, error))
             ELSE IF old_error = None
             THEN [raised |-> "AttributeError", messages |-> <<>>]
             ELSE IF SameKey(error, old_error)
             THEN ValidateLoop(sorted_errors, i + 1, old_error, validation_messages)
             ELSE ValidateLoop(sorted_errors, i + 1, error,
                               Append(validation_messages, error))

\* validate on the errors of the run; compile_error: build raised
\* CompileError and the errors are the ones made of its messages.
validate(static_typing_errors, compile_error) ==
    LET r == ValidateLoop(sorted(static_typing_errors, compile_error), 1, None, <<>>)
    IN  IF r.raised # "-" THEN r
        ELSE [raised |-> "-",
              messages |-> IF compile_error
                           THEN Append(r.messages, CompilationError)
                           ELSE r.messages]

\* The lists of errors of a run: after a CompileError only_once is None.
ErrorLists(compile_error) ==
    LET Attrs == {<<f, l, d, o>> : f \in FileNames, l \in LineNrs, d \in Descriptions,
                                   o \in IF compile_error THEN {FALSE} ELSE BOOLEAN}
    IN  {[i \in 1..Len(s) |-> StaticTypingError(i, s[i][1], s[i][2], s[i][3], s[i][4])] :
            s \in TuplesOver(Attrs, MaxErrors)}

ApiInit ==
    /\ SchedulerIdle
    /\ GeneratorIdle
    /\ EmitterIdle
    /\ ServerIdle
    /\ ConditionIdle
    /\ api_out = [op |-> "-"]
    /\ \E c \in BOOLEAN : \E es \in ErrorLists(c) :
           api_call = [op |-> "validate", errors |-> es, compile_error |-> c]

\* One validation run.
ApiValidate ==
    /\ api_call.op = "validate"
    /\ api_out.op = "-"
    /\ LET r == validate(api_call.errors, api_call.compile_error)
       IN  api_out' = [op |-> "validate", raised |-> r.raised, messages |-> r.messages]
    /\ UNCHANGED <<semVars, genVars, emitVars, srvVars, condVars, api_call>>

ApiNext == ApiValidate

ApiSpec == ApiInit /\ [][ApiNext]_vars

\* The static typing errors among the messages returned.
StaticMessages == SelectSeq(api_out.messages, LAMBDA m : m.kind = "StaticTypingError")

\* The place of an error in the sorted list has no predecessor with its key.
NotDuplicate(sorted_errors, i) ==
    i = 1 \/ ~SameKey(sorted_errors[i], sorted_errors[i - 1])

(***************************************************************************)
(* C18, as stated.  validate raises nothing and returns the static typing  *)
(* errors in the order of (file_name, line_nr, description), every error   *)
(* that is not a duplicate of its predecessor in that order exactly once,  *)
(* the first one included, and after them the CompilationError exactly     *)
(* when the build raised CompileError.                                     *)
(***************************************************************************)
C18_ValidateSortedWithoutDuplicates ==
    api_out.op = "validate" =>
        /\ api_out.raised = "-"
        /\ LET sorted_errors == sorted(api_call.errors, api_call.compile_error)
               static == StaticMessages
               n == Len(static)
           IN  /\ \A i, j \in 1..n :
                      i < j => ~KeyLess(static[j], static[i], api_call.compile_error)
               /\ \A i \in 1..n :
                      /\ \E k \in 1..Len(sorted_errors) : sorted_errors[k] = static[i]
                      /\ \A j \in 1..n : static[i].id = static[j].id => i = j
               /\ \A k \in 1..Len(sorted_errors) :
                      NotDuplicate(sorted_errors, k) =>
                          \E i \in 1..n : static[i] = sorted_errors[k]
               /\ api_out.messages =
                      IF api_call.compile_error
                      THEN Append(static, CompilationError)
                      ELSE static

(***************************************************************************)
(* The order of the rounds of process_top_levels.                          *)
(***************************************************************************)

\* A step of the inner loop: one target is popped and analysed.
AnalysisStep == pc = "inner" /\ pc' = "inner" /\ worklist' = Front(worklist)

\* The place in its round of the target that an analysis step analyses.
PlaceInRound == Len(prev_deferred) - Len(worklist) + 1

\* An analysis step of a round after the first: the round's worklist was
\* made of the targets the previous round deferred.
LaterRoundStep == AnalysisStep /\ iteration >= 2

\* The worklist of the first round holds every module once.
NoWarmup == InitialWorklist(scc) = scc

C19_ReverseStep ==
    LaterRoundStep =>
        last'.target =
            TopLevel(prev_deferred[Len(prev_deferred) + 1 - PlaceInRound])

(***************************************************************************)
(* C19, as stated.  In every round of process_top_levels after the first   *)
(* the targets are analysed in the reverse of the order in which the       *)
(* previous round deferred them.                                           *)
(***************************************************************************)
C19_ReverseOrder == [][C19_ReverseStep]_vars

C19_SameStep ==
    LaterRoundStep => last'.target = TopLevel(prev_deferred[PlaceInRound])

(***************************************************************************)
(* C19, amended.  In every round of process_top_levels after the first the *)
(* targets are analysed in the order in which the previous round deferred  *)
(* them: the k-th target analysed is the k-th target deferred.             *)
(***************************************************************************)
C19_SameOrder == [][C19_SameStep]_vars

\* The second target of a round is analysed, the previous round having
\* deferred three different targets.
C19_Witness ==
    /\ pc = "inner"
    /\ iteration >= 2
    /\ Len(prev_deferred) = 3
    /\ Cardinality(Range(prev_deferred)) = 3
    /\ Len(worklist) = 1
    /\ last.round = iteration
    /\ last.target = TopLevel(prev_deferred[2])

C20_NeverTwiceStep ==
    (AnalysisStep /\ last.target # NoTarget.target) => last'.target # last.target

C20_TwoDeferredStep ==
    (AnalysisStep /\ last.target # NoTarget.target /\ NoWarmup) =>
        /\ (Len(prev_deferred) >= 2 \/ last.round = iteration) =>
               last'.target # last.target
        /\ (last.round < iteration /\ last.deferred /\ Len(prev_deferred) = 1) =>
               last'.target = last.target

AnalysedModule == last'.target[1]

C21_DeferredStep ==
    AnalysisStep =>
        /\ ~last'.deferred => AnalysedModule \notin incomplete_namespaces'
        /\ (last'.deferred /\ ~final_iteration) =>
               AnalysedModule \in incomplete_namespaces'

(***************************************************************************)
(* C21, as stated.  After the analysis of a top level in process_top_levels *)
(* its module is not in incomplete_namespaces when the target was not      *)
(* deferred, and is in incomplete_namespaces when the target was deferred  *)
(* in a round before the final one.                                        *)
(***************************************************************************)
C21_DeferredStaysIncomplete == [][C21_DeferredStep]_vars

C21_IncompleteStep ==
    AnalysisStep =>
        /\ ~last'.deferred => AnalysedModule \notin incomplete_namespaces'
        /\ ~last'.incomplete => AnalysedModule \notin incomplete_namespaces'
        /\ last'.incomplete =>
               (AnalysedModule \in incomplete_namespaces'
                    <=> AnalysedModule \in incomplete_namespaces)

(***************************************************************************)
(* C21, amended.  After the analysis of a top level in process_top_levels  *)
(* its module is not in incomplete_namespaces when the analysis did not    *)
(* return incomplete, which includes every target that was not deferred    *)
(* and the targets deferred without being incomplete; when the analysis    *)
(* returned incomplete the module is in the set exactly if it was before.  *)
(***************************************************************************)
C21_RemovedUnlessIncomplete == [][C21_IncompleteStep]_vars

\* A top level was deferred in a round before the final one, was not
\* incomplete, and its module has left incomplete_namespaces.
C21_Witness ==
    /\ pc = "inner"
    /\ last.round = iteration
    /\ ~final_iteration
    /\ last.deferred
    /\ ~last.incomplete
    /\ last.target[1] \notin incomplete_namespaces

(***************************************************************************)
(* process_selected_targets (semanal_main.py:75-92): the entry point of    *)
(* the fine-grained mode.  The state is one module; nodes are some of its  *)
(* targets, in any order and with repetitions: its MypyFile (0) and its    *)
(* functions (k).                                                          *)
(***************************************************************************)
MaxNodes == 3

MypyFile == 0

\* A start that leaves the top level to the loop over the nodes.
SelectedStartWithoutTopLevels ==
    /\ pc = "selected"
    /\ pc' = "nodes"
    /\ UNCHANGED <<genVars, emitVars, apiVars, srvVars, condVars, selVars, forced, scc, graph,
                   incomplete_namespaces, names, errors, topLocals, fnLocals, run,
                   analysed, last, run_deferred, run_errors>>

\* Lines 76-79: the top level is processed first if a node is the MypyFile.
SelectedStart ==
    /\ pc = "selected"
    /\ pc' = IF \E i \in 1..Len(nodes) : nodes[i] = MypyFile THEN "call" ELSE "nodes"
    /\ UNCHANGED <<genVars, emitVars, apiVars, srvVars, condVars, selVars, forced, scc, graph,
                   incomplete_namespaces, names, errors, topLocals, fnLocals, run,
                   analysed, last, run_deferred, run_errors>>

\* Lines 81-84: a MypyFile node is passed over.
SelectedSkip ==
    /\ pc = "nodes"
    /\ node_index <= Len(nodes)
    /\ nodes[node_index] = MypyFile
    /\ node_index' = node_index + 1
    /\ UNCHANGED <<genVars, emitVars, apiVars, srvVars, condVars, caller, nodes, forced, scc, graph,
                   incomplete_namespaces, names, errors, topLocals, fnLocals, pc, run,
                   analysed, last, run_deferred, run_errors>>

\* Lines 85-86 and 167-173: process_top_level_function is called on the
\* node and starts.
SelectedFunctionStart ==
    /\ pc = "nodes"
    /\ node_index <= Len(nodes)
    /\ nodes[node_index] # MypyFile
    /\ fn_module' = 1
    /\ fn_index' = nodes[node_index]
    /\ fn_iteration' = 0
    /\ more_iterations' = TRUE
    /\ incomplete' = TRUE
    /\ deferred' = TRUE
    /\ incomplete_namespaces' = incomplete_namespaces \cup {scc[1]}
    /\ pc' = "function"
    /\ UNCHANGED <<genVars, emitVars, apiVars, srvVars, condVars, selVars, forced, scc, graph, names, errors,
                   topLocals, run, analysed, last, run_deferred, run_errors>>

\* Lines 81 and 87-92: no node is left and process_selected_targets returns
\* (lines 87-92 change nothing the model holds).
SelectedReturn ==
    /\ pc = "nodes"
    /\ node_index > Len(nodes)
    /\ pc' = "done"
    /\ run_errors' = [run_errors EXCEPT ![run] = errors]
    /\ UNCHANGED <<genVars, emitVars, apiVars, srvVars, condVars, selVars, forced, scc, graph,
                   incomplete_namespaces, names, errors, topLocals, fnLocals, run,
                   analysed, last, run_deferred>>

\* process_selected_targets is called on a module of up to MaxFuncs
\* functions with up to MaxNodes nodes.
SelectedInit ==
    /\ \E id \in UserModules, n \in 0..MaxFuncs :
          /\ scc = <<id>>
          /\ graph = [m \in {id} |-> OpaqueTree(n)]
          /\ nodes \in TuplesOver({MypyFile} \cup 1..n, MaxNodes)
    /\ AnalysisStart
    /\ pc = "selected"
    /\ caller = "process_selected_targets"
    /\ node_index = 1
    /\ GeneratorIdle
    /\ EmitterIdle
    /\ ApiIdle
    /\ ServerIdle
    /\ ConditionIdle

CallersInit == Init \/ SelectedInit

CallersNext ==
    \/ Next
    \/ SelectedStart
    \/ SelectedSkip
    \/ SelectedFunctionStart
    \/ SelectedReturn

\* Both callers of process_top_levels and process_top_level_function.
CallersSpec == CallersInit /\ [][CallersNext]_vars

\* A pass of process_top_level_function: a function target is analysed.
FunctionPassStep == pc = "function" /\ fn_iteration' = fn_iteration + 1

\* The modules whose top level the caller has process_top_levels process.
TopLevelModules ==
    IF caller = "semantic_analysis_for_scc" THEN Range(scc)
    ELSE IF \E i \in 1..Len(nodes) : nodes[i] = MypyFile THEN {scc[1]}
    ELSE {}

C22_TopLevelsFirstStep ==
    /\ FunctionPassStep =>
           /\ worklist = <<>>
           /\ ~InTopLevels
           /\ \A id \in TopLevelModules : TopLevel(id) \in analysed
           /\ last'.target[2] > 0
    /\ AnalysisStep =>
           /\ last'.target[2] = 0
           /\ analysed \cap LeafTargets = {}
    /\ pc \in {"functions", "function", "nodes"} =>
           pc' \in {"functions", "function", "nodes", "done"}

(***************************************************************************)
(* C22.  Under semantic_analysis_for_scc and under                         *)
(* process_selected_targets a function target is analysed only when the    *)
(* worklist of top levels is empty and the top level of every module being *)
(* processed has been analysed; the top-level phase analyses top levels    *)
(* only, and once the function loop has started no top-level phase starts  *)
(* again, so that a MypyFile among the selected nodes is analysed in the   *)
(* top-level phase only.                                                   *)
(***************************************************************************)
C22_TopLevelsBeforeFunctions == [][C22_TopLevelsFirstStep]_vars

\* process_selected_targets analyses a function that is listed before the
\* MypyFile of its module, the top level having been analysed.
C22_Witness ==
    /\ caller = "process_selected_targets"
    /\ Len(nodes) >= 2
    /\ nodes[1] # MypyFile
    /\ nodes[2] = MypyFile
    /\ pc = "function"
    /\ last.target = <<scc[1], nodes[1]>>
    /\ TopLevel(scc[1]) \in analysed

C23_BoundedStep ==
    /\ FunctionPassStep =>
           /\ fn_iteration < MAX_ITERATIONS
           /\ fn_iteration >= 1 => last.deferred
    /\ (pc = "function" /\ pc' # "function") =>
           /\ fn_iteration >= 1
           /\ fn_iteration <= MAX_ITERATIONS
           /\ ~last.deferred \/ fn_iteration = MAX_ITERATIONS

(***************************************************************************)
(* C23.  process_top_level_function analyses its target at least once and *)
(* at most MAX_ITERATIONS times and then returns: a pass is made only      *)
(* after the start or after a pass that deferred the target, never after   *)
(* pass MAX_ITERATIONS, and the function returns after the first pass that *)
(* did not defer or after pass MAX_ITERATIONS.                             *)
(***************************************************************************)
C23_FunctionPassesBounded ==
    [][C23_BoundedStep]_vars /\ (pc = "function" ~> pc # "function")

\* A function has been deferred in every pass but the last and pass
\* MAX_ITERATIONS has been made.
C23_Witness ==
    /\ pc = "function"
    /\ fn_iteration = MAX_ITERATIONS
    /\ ~more_iterations
    /\ last.target = FnTarget
    /\ last.round = MAX_ITERATIONS

C24_LastPassStep ==
    /\ (FunctionPassStep /\ fn_iteration = 0) =>
           /\ ~last'.final
           /\ FnModule \in incomplete_namespaces'
    /\ (pc = "function" /\ pc' # "function") =>
           /\ last.final
           /\ FnModule \notin incomplete_namespaces

(***************************************************************************)
(* C24, as stated.  The first pass of process_top_level_function over a   *)
(* function runs with its module in incomplete_namespaces and              *)
(* final_iteration false, and the last pass made before the function       *)
(* returns runs with the module out of incomplete_namespaces and           *)
(* final_iteration true.                                                   *)
(***************************************************************************)
C24_LastPassReportsErrors == [][C24_LastPassStep]_vars

(***************************************************************************)
(* C25.  A new generator object has label 0, and a call of the helper      *)
(* whose stored label is the index of a continuation block, 0 for the      *)
(* start of the body, enters that block; no call enters a block of another *)
(* label.                                                                  *)
(***************************************************************************)
C25_ResumesAtStoredLabel ==
    /\ (gen_blocks > 0 /\ gen_calls = 0) => next_label = 0
    /\ gen_calls > 0 =>
           /\ gen_call.label \in BlockLabels => gen_call.entered = gen_call.label
           /\ gen_call.entered # NoBlock => gen_call.entered = gen_call.label

\* A call has entered the last continuation block of a body with three
\* suspension points or more, after a call that entered the first.
C25_Witness ==
    /\ gen_blocks >= 4
    /\ gen_calls >= 2
    /\ gen_call.label = gen_blocks - 1
    /\ gen_call.entered = gen_blocks - 1

(***************************************************************************)
(* C26.  __next__ and send call the helper with type, value and traceback  *)
(* None, and the check at the resume point raises nothing for them; throw  *)
(* calls it with the type given and with the value and the traceback       *)
(* given, None where they were omitted, and the check at the resume point  *)
(* raises exactly when the type is not None; send passes its argument as   *)
(* the value resumed with, __next__ and throw pass None.                   *)
(***************************************************************************)
C26_InjectionOnlyByThrow ==
    /\ gen_call.method \in {"next", "send"} =>
           /\ gen_call.type = "None"
           /\ gen_call.value = "None"
           /\ gen_call.traceback = "None"
           /\ ~gen_call.injected
    /\ gen_call.method = "throw" =>
           /\ gen_call.value = (IF gen_call.given[1] = "NULL" THEN "None"
                                ELSE gen_call.given[1])
           /\ gen_call.traceback = (IF gen_call.given[2] = "NULL" THEN "None"
                                    ELSE gen_call.given[2])
           /\ gen_call.entered # NoBlock =>
                  /\ gen_call.injected <=> gen_call.type # "None"
                  /\ (gen_call.injected /\ gen_call.entered = 0) =>
                         (gen_call.kind = "raise" /\ gen_call.exc = gen_call.type)
    /\ gen_call.method \in {"next", "throw"} => gen_call.arg = "None"

\* throw without value and traceback has raised its exception at a resume
\* point, after a send that resumed the body with its argument.
C26_Witness ==
    /\ gen_call.method = "throw"
    /\ gen_call.given = <<"NULL", "NULL">>
    /\ gen_call.type = "ValueError"
    /\ gen_call.entered > 0
    /\ gen_call.injected
    /\ gen_call.exc = "ValueError"

\* The leaves of a type that are reference counted, as paths of fields in
\* the order of the fields: the tagged ints and the boxed values.
RECURSIVE RefcountedLeaves(_, _)
RECURSIVE RefcountedFrom(_, _, _)
RefcountedFrom(path, rtype, i) ==
    IF i > Len(rtype.types) THEN <<>>
    ELSE RefcountedLeaves(Append(path, i - 1), rtype.types[i])
             \o RefcountedFrom(path, rtype, i + 1)

RefcountedLeaves(path, rtype) ==
    IF isRTuple(rtype) THEN RefcountedFrom(path, rtype, 1)
    ELSE IF rtype.name = "int" \/ ~is_unboxed(rtype) THEN <<path>>
    ELSE <<>>

\* The expressions of the lines emitted, in their order.
Dests(lines) == [i \in 1..Len(lines) |-> lines[i].dest]

(***************************************************************************)
(* C27.  emit_inc_ref and emit_dec_ref each emit one operation for every   *)
(* reference-counted leaf of the type, a tagged int or a boxed value, in   *)
(* the order of the fields of the tuples gone through, and none for any    *)
(* other leaf; the two go through the same paths of fields.                *)
(***************************************************************************)
C27_RefcountStructural ==
    emit_out.op = "refcount" =>
        /\ Dests(emit_out.inc) = RefcountedLeaves(<<>>, emit_call.rtype)
        /\ Dests(emit_out.dec) = RefcountedLeaves(<<>>, emit_call.rtype)
        /\ Dests(emit_out.inc) = Dests(emit_out.dec)

\* The counts of a tuple with a short int, a nested tuple of an int and a
\* bool, and an object: two operations, on f1.f0 and on f2.
C27_Witness ==
    /\ emit_out.op = "refcount"
    /\ Len(emit_call.rtype.types) = 3
    /\ Dests(emit_out.inc) = <<<<1, 0>>, <<2>>>>
    /\ Dests(emit_out.dec) = <<<<1, 0>>, <<2>>>>

(***************************************************************************)
(* C29, as stated.  The condition of error_value_check is a comparison of  *)
(* the value with the error value of the type and has the same value       *)
(* whether an exception is pending or not, for every type, and the         *)
(* condition of emit_undefined_attr_check is decided by that comparison    *)
(* and the bit of the attribute alone.                                     *)
(***************************************************************************)
C29_ValueComparisonOnly ==
    emit_out.op = "attr_check" =>
        /\ emit_out.check = error_value_check(emit_call.rtype, emit_call.value, TRUE)
        /\ emit_out.undefined =
               emit_undefined_attr_check(emit_call.rtype, emit_call.value,
                                         emit_call.bit, TRUE)

(***************************************************************************)
(* The daemon (dmypy.py).  server() accepts one connection at a time,      *)
(* reads one JSON request from it, writes one JSON response and closes     *)
(* it.  A request is its 'command' entry: absent, present and not a        *)
(* string, or a string; the other entries of a request are those the       *)
(* command's function takes (check comes with its files).  The result of   *)
(* mypy.api.run is the response "result".  An exception that leaves the    *)
(* loop ends the process: srv_pc is "crashed".                             *)
(***************************************************************************)
MaxRequests == 3

\* The names under which the command functions are registered.
command_registry == {"cmd_status", "cmd_stop", "cmd_check", "cmd_recheck", "cmd_hang"}

\* The value of the local variable command before its first assignment.
Unbound == "<unbound>"

\* The requests: no 'command', a 'command' that is no string, and strings.
Requests ==
    {[has_command |-> FALSE, is_str |-> FALSE, command |-> "-"],
     [has_command |-> TRUE, is_str |-> FALSE, command |-> "<int>"]}
    \cup {[has_command |-> TRUE, is_str |-> TRUE, command |-> c] :
              c \in {"status", "stop", "check", "recheck", "bogus"}}

\* run_command(command, data): what it returns or that it raises, and
\* last_args after it; is_str says that command is a string, args is
\* last_args before it.
run_command(cmd, is_str, args) ==
    IF ~is_str
    THEN [raised |-> TRUE, resp |-> "-", last_args |-> args]
    ELSE LET key == "cmd_" \o cmd
         IN  IF key \in command_registry
             THEN CASE key = "cmd_status" ->
                           [raised |-> FALSE, resp |-> "status", last_args |-> args]
                    [] key = "cmd_check" ->
                           [raised |-> FALSE, resp |-> "result", last_args |-> TRUE]
                    [] key = "cmd_recheck" ->
                           [raised |-> FALSE,
                            resp |-> IF args THEN "result" ELSE "error: recheck before check",
                            last_args |-> args]
                    [] OTHER ->
                           [raised |-> FALSE, resp |-> "{}", last_args |-> args]
             ELSE [raised |-> FALSE, resp |-> "error: Unrecognized command",
                   last_args |-> args]

\* The daemon has started and waits for its first connection.
ServerInit ==
    /\ SchedulerIdle
    /\ GeneratorIdle
    /\ EmitterIdle
    /\ ApiIdle
    /\ ConditionIdle
    /\ srv_pc = "accept"
    /\ command = Unbound
    /\ last_args = FALSE
    /\ srv_log = <<>>

\* One turn of the loop of server(): a request is accepted and handled.
ServerLoop ==
    /\ srv_pc = "accept"
    /\ Len(srv_log) < MaxRequests
    /\ \E req \in Requests :
         IF ~req.has_command
         THEN \* the response is the error; command keeps its value
              /\ srv_log' = Append(srv_log, [req |-> req, sent |-> 1,
                                             resp |-> "error: No command found in request"])
              /\ srv_pc' = IF command = Unbound THEN "crashed"
                           ELSE IF command = "stop" THEN "exited" ELSE "accept"
              /\ UNCHANGED <<command, last_args>>
         ELSE LET r == run_command(req.command, req.is_str, last_args)
              IN  /\ command' = req.command
                  /\ last_args' = r.last_args
                  /\ IF r.raised
                     THEN /\ srv_log' = Append(srv_log, [req |-> req, sent |-> 0,
                                                         resp |-> "-"])
                          /\ srv_pc' = "crashed"
                     ELSE /\ srv_log' = Append(srv_log, [req |-> req, sent |-> 1,
                                                         resp |-> r.resp])
                          /\ srv_pc' = IF req.command = "stop" THEN "exited"
                                       ELSE "accept"
    /\ UNCHANGED <<semVars, genVars, emitVars, apiVars, condVars>>

ServerSpec == ServerInit /\ [][ServerLoop]_vars

\* The request is one of those the daemon must answer with an error.
BadRequest(req) ==
    \/ ~req.has_command
    \/ ~req.is_str
    \/ ("cmd_" \o req.command) \notin command_registry

\* The response is an error.
ErrorResponse(resp) ==
    resp \in {"error: No command found in request", "error: Command is not a string",
              "error: Unrecognized command", "error: recheck before check"}

\* C28: every accepted request is sent exactly one response; a request
\* without 'command', with a command that is no string or with an
\* unregistered command is sent an error and the daemon goes on serving
\* after it; the daemon never crashes, and it has exited exactly when the
\* last request it accepted is the command 'stop'.
C28_OneResponseUntilStop ==
    srv_pc # "-" =>
        /\ srv_pc # "crashed"
        /\ \A i \in 1..Len(srv_log) :
               /\ srv_log[i].sent = 1
               /\ BadRequest(srv_log[i].req) =>
                      /\ ErrorResponse(srv_log[i].resp)
                      /\ i = Len(srv_log) => srv_pc = "accept"
        /\ srv_pc = "exited" <=>
               /\ srv_log # <<>>
               /\ Last(srv_log).req.is_str
               /\ Last(srv_log).req.command = "stop"

(***************************************************************************)
(* Truth values of conditions (reachability.py).  An expression is a       *)
(* record: its class, its name (the name of a NameExpr or MemberExpr, the  *)
(* operator of a UnaryExpr, OpExpr or ComparisonExpr, the value of a       *)
(* StrExpr) and its operands.                                              *)
(***************************************************************************)
ALWAYS_TRUE == 1
MYPY_TRUE == 2
ALWAYS_FALSE == 3
MYPY_FALSE == 4
TRUTH_VALUE_UNKNOWN == 5

inverted_truth_mapping ==
    (ALWAYS_TRUE :> ALWAYS_FALSE) @@ (ALWAYS_FALSE :> ALWAYS_TRUE)
    @@ (TRUTH_VALUE_UNKNOWN :> TRUTH_VALUE_UNKNOWN)
    @@ (MYPY_TRUE :> MYPY_FALSE) @@ (MYPY_FALSE :> MYPY_TRUE)

NameExpr(name) == [class |-> "NameExpr", name |-> name, operands |-> <<>>]
MemberExpr(expr, name) == [class |-> "MemberExpr", name |-> name, operands |-> <<expr>>]
StrExpr(value) == [class |-> "StrExpr", name |-> value, operands |-> <<>>]
UnaryExpr(op, expr) == [class |-> "UnaryExpr", name |-> op, operands |-> <<expr>>]
OpExpr(op, left, right) == [class |-> "OpExpr", name |-> op, operands |-> <<left, right>>]
ComparisonExpr(op, left, right) ==
    [class |-> "ComparisonExpr", name |-> op, operands |-> <<left, right>>]

\* is_sys_attr(expr, name): expr is sys.<name>.
is_sys_attr(expr, name) ==
    /\ expr.class = "MemberExpr"
    /\ expr.name = name
    /\ expr.operands[1].class = "NameExpr"
    /\ expr.operands[1].name = "sys"

\* fixed_comparison(left, op, right) for the operators == and != .
fixed_comparison(left, op, right) ==
    IF op = "==" THEN (IF left = right THEN ALWAYS_TRUE ELSE ALWAYS_FALSE)
    ELSE IF op = "!=" THEN (IF left # right THEN ALWAYS_TRUE ELSE ALWAYS_FALSE)
    ELSE TRUTH_VALUE_UNKNOWN

\* consider_sys_platform(expr, platform) for expressions that are no calls.
consider_sys_platform(expr, platform) ==
    IF expr.class = "ComparisonExpr"
    THEN IF expr.name \notin {"==", "!="} THEN TRUTH_VALUE_UNKNOWN
         ELSE IF ~is_sys_attr(expr.operands[1], "platform") THEN TRUTH_VALUE_UNKNOWN
         ELSE IF expr.operands[2].class # "StrExpr" THEN TRUTH_VALUE_UNKNOWN
         ELSE fixed_comparison(platform, expr.name, expr.operands[2].name)
    ELSE TRUTH_VALUE_UNKNOWN

\* consider_sys_version_info(expr, pyversion) for expressions in which
\* sys.version_info does not occur.
consider_sys_version_info(expr) == TRUTH_VALUE_UNKNOWN

\* The truth value of a name.
NameValue(name, options) ==
    IF name = "PY2" THEN ALWAYS_FALSE
    ELSE IF name = "PY3" THEN ALWAYS_TRUE
    ELSE IF name = "MYPY" \/ name = "TYPE_CHECKING" THEN MYPY_TRUE
    ELSE IF name \in options.always_true THEN ALWAYS_TRUE
    ELSE IF name \in options.always_false THEN ALWAYS_FALSE
    ELSE TRUTH_VALUE_UNKNOWN

RECURSIVE infer_condition_value(_, _)
infer_condition_value(alias, options) ==
    LET negated == alias.class = "UnaryExpr" /\ alias.name = "not"
        expr == IF negated THEN alias.operands[1] ELSE alias
    IN  IF expr.class = "OpExpr" /\ expr.name \in {"and", "or"}
        THEN \* returns from inside the branch
             LET left == infer_condition_value(expr.operands[1], options)
             IN  IF \/ left \in {ALWAYS_TRUE, MYPY_TRUE} /\ expr.name = "and"
                    \/ left \in {ALWAYS_FALSE, MYPY_FALSE} /\ expr.name = "or"
                 THEN infer_condition_value(expr.operands[2], options)
                 ELSE left
        ELSE LET name == IF expr.class \in {"NameExpr", "MemberExpr"}
                         THEN expr.name ELSE ""
                 computed ==
                     IF expr.class \in {"NameExpr", "MemberExpr"}
                     THEN TRUTH_VALUE_UNKNOWN
                     ELSE IF consider_sys_version_info(expr) = TRUTH_VALUE_UNKNOWN
                          THEN consider_sys_platform(expr, options.platform)
                          ELSE consider_sys_version_info(expr)
                 result == IF computed = TRUTH_VALUE_UNKNOWN
                           THEN NameValue(name, options) ELSE computed
             IN  IF negated THEN inverted_truth_mapping[result] ELSE result

MaxDepth == 1

\* The expressions without operands of the conditions.
Atoms ==
    {NameExpr(n) : n \in {"PY2", "PY3", "MYPY", "DEBUG"}}
    \cup {MemberExpr(NameExpr("typing"), "TYPE_CHECKING"),
          ComparisonExpr("==", MemberExpr(NameExpr("sys"), "platform"), StrExpr("linux"))}

\* The conditions whose operators are nested at most d deep.
RECURSIVE Conditions(_)
Conditions(d) ==
    IF d = 0 THEN Atoms
    ELSE LET S == Conditions(d - 1)
         IN  S \cup {UnaryExpr("not", e) : e \in S}
               \cup {OpExpr(op, l, r) : op \in {"and", "or"}, l \in S, r \in S}

\* The options a condition is inferred under.
ConditionOptions ==
    [platform : {"linux", "win32"}, always_true : {{}, {"DEBUG"}},
     always_false : {{}, {"DEBUG"}}]

\* A condition e and options are chosen.
ConditionInit ==
    /\ SchedulerIdle
    /\ GeneratorIdle
    /\ EmitterIdle
    /\ ApiIdle
    /\ ServerIdle
    /\ cond_out = [op |-> "-"]
    /\ \E e \in Conditions(MaxDepth) : \E o \in ConditionOptions :
           cond_call = [op |-> "infer", expr |-> e, options |-> o]

\* infer_condition_value is applied to e and to 'not e'.
InferCondition ==
    /\ cond_call.op = "infer"
    /\ cond_out.op = "-"
    /\ cond_out' = [op |-> "infer",
                    value |-> infer_condition_value(cond_call.expr, cond_call.options),
                    negation |-> infer_condition_value(UnaryExpr("not", cond_call.expr),
                                                       cond_call.options)]
    /\ UNCHANGED <<semVars, genVars, emitVars, apiVars, srvVars, cond_call>>

ConditionSpec == ConditionInit /\ [][InferCondition]_vars

\* C30: the value inferred for 'not e' is the inverse of the value
\* inferred for e, for every condition e.
C30_NegationInverts ==
    cond_out.op = "infer" =>
        cond_out.negation = inverted_truth_mapping[cond_out.value]

=============================================================================
